---- MODULE Spec2Model ----
(***************************************************************************)
(* Identity resolution and intrusion events of the surveillance system:    *)
(*   src/src/utils/camera_network.py   CameraNetwork.allowed_transition    *)
(*   src/src/reid/matcher.py           ReIDMatcher.match_track             *)
(*   src/src/pipeline/global_matching.py  run_global_matching              *)
(*   src/src/alerts/alert_manager.py   AlertManager.update                 *)
(*   src/src/pipeline/process_video.py VideoProcessor.process              *)
(*   src/src/utils/event_enricher.py   _dedup_overlapping_zone_events      *)
(*                                                                         *)
(* Conventions.  A Python value that may be None is a sequence of length   *)
(* at most one: <<>> is None and <<v>> is the value v.  A camera id is a   *)
(* string and NoCamera stands for None.  An embedding is an integer        *)
(* vector <<x, y>> whose norm is an integer; cosine distances are kept in  *)
(* hundredths, so that 0.3 is 30 and every distance of the model is exact. *)
(***************************************************************************)
EXTENDS Integers, Sequences, FiniteSets, TLC

VARIABLES
    threshold,        \* ReIDMatcher.threshold, in hundredths
    camera_network,   \* ReIDMatcher.camera_network: <<>> or <<network>>
    global_tracks,    \* ReIDMatcher.global_tracks, a dict in insertion order
    next_global_id,   \* ReIDMatcher.next_global_id
    calls,            \* number of match_track calls made so far
    last,             \* arguments and result of the latest match_track call
    hist,             \* per global_id, every embedding ever given to it
    chain,            \* bookkeeping of the embeddings of one real person
    query,            \* arguments and result of the latest allowed_transition
    pc,               \* position of run_global_matching
    store,            \* the trajectory files on disk (data/trajectories/*.json)
    json_files,       \* run_global_matching: the files in the order of the glob
    loaded,           \* run_global_matching: the parsed document of each file
    all_tracks,       \* run_global_matching: the tracks to match
    files_to_save,    \* run_global_matching: the files to write back
    presented,        \* the tracks handed to match_track, in order
    min_duration,     \* AlertManager.min_duration
    active_intrusions,\* AlertManager.active_intrusions: track_id -> zone entries
    events,           \* the events written to AlertManager.output_file
    now,              \* the frame time of the caller of AlertManager.update
    upd,              \* arguments and outcome of the latest update
    stay,             \* per (track, zone), the history of its latest stay
    mono,             \* per track, its latest time and whether times never fell
    vp_pc,            \* position of VideoProcessor.process
    frame_id,         \* VideoProcessor: frame_id of the frame loop
    videos,           \* number of videos given to VideoProcessor.process
    dd_cfg,           \* zones, camera_network and time_window_s of the dedup
    dd_in,            \* the events given to _dedup_overlapping_zone_events
    dd_out,           \* <<>> or <<the events it returned>>
    dd_in2,           \* the same events in the order of a second call
    dd_out2,          \* <<>> or <<the events the second call returned>>
    trajectories,     \* the track appearances read from data/trajectories
    events_file,      \* the events of the file enrichment rewrites in place
    events_before,    \* the events of the file before the latest enrichment
    enrich_runs,      \* number of enrichment runs made so far
    zone_table,       \* ZoneManager.zones: zone_id -> zone
    zones_file,       \* the zones document on disk, <<>> when there is none
    zm_op,            \* the latest ZoneManager call and whether it raised
    zm_prev,          \* ZoneManager.zones before the latest call
    zm_n,             \* number of ZoneManager calls made so far
    main_pc,          \* position of main()
    file_video        \* data["video_id"] of each file of the store

gmvars == <<pc, store, json_files, loaded, all_tracks, files_to_save, presented>>

amvars == <<min_duration, active_intrusions, events, now, upd, stay, mono,
            vp_pc, frame_id, videos>>

zmvars == <<zone_table, zones_file, zm_op, zm_prev, zm_n>>

mnvars == <<main_pc, file_video>>

envars == <<trajectories, events_file, events_before, enrich_runs>>

ddvars == <<dd_cfg, dd_in, dd_out, dd_in2, dd_out2>>

idvars == <<threshold, camera_network, global_tracks, next_global_id,
            calls, last, hist, chain, query>>

vars == <<threshold, camera_network, global_tracks, next_global_id,
          calls, last, hist, chain, query,
          pc, store, json_files, loaded, all_tracks, files_to_save, presented,
          min_duration, active_intrusions, events, now, upd, stay, mono,
          vp_pc, frame_id, videos,
          dd_cfg, dd_in, dd_out, dd_in2, dd_out2,
          trajectories, events_file, events_before, enrich_runs,
          zone_table, zones_file, zm_op, zm_prev, zm_n,
          main_pc, file_video>>

-----------------------------------------------------------------------------
(* Bounds of the model *)

MaxCalls == 3
MaxBufCalls == 12
MaxDt == 3
MaxTracks == 2
MaxUpdates == 3
MaxVideos == 2
MaxFrames == 3
MaxEvents == 3
MaxRuns == 2
MaxOps == 3

-----------------------------------------------------------------------------
(* Optional values *)

None == <<>>
Some(v) == <<v>>
IsNone(x) == x = <<>>
Val(x) == x[1]

NoCamera == "None"
Cameras == {"c1", "c2"}

-----------------------------------------------------------------------------
(* Embeddings and the cosine distance *)

Embeddings == {<<5, 0>>, <<4, 3>>, <<4, -3>>}

Dot(u, v) == u[1] * v[1] + u[2] * v[2]

Norm(u) == CHOOSE n \in 0..10 : n * n = Dot(u, u)

\* scipy.spatial.distance.cosine: 1 - u.v / (|u| |v|), in hundredths
cosine(u, v) == 100 - (100 * Dot(u, v)) \div (Norm(u) * Norm(v))

\* float('inf')
Inf == 1000

SeqMin(s) == CHOOSE m \in {s[i] : i \in 1..Len(s)} :
                 \A i \in 1..Len(s) : m <= s[i]

-----------------------------------------------------------------------------
(* CameraNetwork *)

Edge(src, dst, min_s, max_s) ==
    [src |-> src, dst |-> dst, min_s |-> min_s, max_s |-> max_s]

CameraNetwork(edges, gap, same) ==
    [edges |-> edges, default_max_gap_s |-> gap, allow_same_camera_match |-> same]

is_open(net) == Len(net.edges) = 0

\* self._adj.get(prev_camera, []): the edges leaving prev_camera, in order
Adj(net, prev_camera) == SelectSeq(net.edges, LAMBDA e : e.src = prev_camera)

\* the test of one time-aware edge against a known dt
InWindow(e, dt_s_val) ==
    LET min_s == IF IsNone(e.min_s) THEN 0 ELSE Val(e.min_s)
    IN  /\ min_s <= dt_s_val
        /\ (IsNone(e.max_s) \/ dt_s_val <= Val(e.max_s))

\* one iteration of the edge loop returns True
EdgeAllows(e, new_camera, dt_s) ==
    /\ e.dst = new_camera
    /\ \/ IsNone(e.min_s) /\ IsNone(e.max_s)
       \/ IsNone(dt_s)
       \/ InWindow(e, Val(dt_s))

ExceedsGapOrEqual(net, dt_s) ==
    /\ ~IsNone(dt_s)
    /\ ~IsNone(net.default_max_gap_s)
    /\ Val(dt_s) >= Val(net.default_max_gap_s)

\* dt_s_val is not None and default_max_gap_s is not None and dt_s_val > gap
ExceedsGap(net, dt_s) ==
    /\ ~IsNone(dt_s)
    /\ ~IsNone(net.default_max_gap_s)
    /\ Val(dt_s) > Val(net.default_max_gap_s)

allowed_transition(net, prev_camera, new_camera, dt_s) ==
    IF prev_camera = NoCamera \/ new_camera = NoCamera THEN TRUE
    ELSE IF prev_camera = new_camera THEN net.allow_same_camera_match
    ELSE IF is_open(net) THEN TRUE
    ELSE IF ExceedsGap(net, dt_s) THEN FALSE
    ELSE LET adj == Adj(net, prev_camera)
         IN  \E i \in 1..Len(adj) : EdgeAllows(adj[i], new_camera, dt_s)

-----------------------------------------------------------------------------
(* ReIDMatcher.match_track *)

\* the difference taken without its absolute value
GateDtSigned(timestamp, last_seen) ==
    IF ~IsNone(last_seen) /\ ~IsNone(timestamp)
    THEN Some(Val(timestamp) - Val(last_seen))
    ELSE None

\* dt_s as the gating computes it from the call's timestamp and last_seen
GateDt(timestamp, last_seen) ==
    IF ~IsNone(last_seen) /\ ~IsNone(timestamp)
    THEN LET d == Val(timestamp) - Val(last_seen)
         IN  Some(IF d < 0 THEN 0 - d ELSE d)
    ELSE None

\* the test of the gating without its negation
SkippedInverted(cn, data, timestamp, camera_id) ==
    /\ ~IsNone(cn)
    /\ allowed_transition(Val(cn), data.last_camera, camera_id,
                          GateDt(timestamp, data.last_seen))

\* a gating on elapsed time alone, applied without any network
SkippedWhenLater(cn, data, timestamp, camera_id) ==
    /\ ~IsNone(GateDt(timestamp, data.last_seen))
    /\ Val(GateDt(timestamp, data.last_seen)) > 0

\* the loop skips this identity (continue)
Skipped(cn, data, timestamp, camera_id) ==
    /\ ~IsNone(cn)
    /\ ~allowed_transition(Val(cn), data.last_camera, camera_id,
                           GateDt(timestamp, data.last_seen))

SeqSum(s) ==
    LET sum[i \in 0..Len(s)] == IF i = 0 THEN 0 ELSE sum[i - 1] + s[i]
    IN  sum[Len(s)]

\* the mean of the distances in place of their minimum
TrackDistMean(track_embedding, stored_embeddings) ==
    IF Len(stored_embeddings) = 0 THEN 100
    ELSE SeqSum([i \in 1..Len(stored_embeddings) |->
                    cosine(track_embedding, stored_embeddings[i])])
         \div Len(stored_embeddings)

\* dist = min(dists) if dists else 1.0
TrackDist(track_embedding, stored_embeddings) ==
    IF Len(stored_embeddings) = 0 THEN 100
    ELSE SeqMin([i \in 1..Len(stored_embeddings) |->
                    cosine(track_embedding, stored_embeddings[i])])

CloserOrEqual(dist, min_dist) == dist <= min_dist

\* if dist < min_dist
Closer(dist, min_dist) == dist < min_dist

IsMatchOrEqual(min_dist, thr) == min_dist <= thr

\* if min_dist < self.threshold
IsMatch(min_dist, thr) == min_dist < thr

\* the for loop over self.global_tracks.items(): best_match_id and min_dist
BestMatch(tracks, cn, track_embedding, timestamp, camera_id) ==
    LET loop[i \in 0..Len(tracks)] ==
            IF i = 0 THEN [best_match_id |-> 0, min_dist |-> Inf]
            ELSE LET best == loop[i - 1]
                     data == tracks[i]
                 IN  IF Skipped(cn, data, timestamp, camera_id) THEN best
                     ELSE LET dist == TrackDist(track_embedding, data.embeddings)
                          IN  IF Closer(dist, best.min_dist)
                              THEN [best_match_id |-> data.gid, min_dist |-> dist]
                              ELSE best
    IN  loop[Len(tracks)]

BufCap == 10

\* append, then pop() of the newest when the buffer is longer than BufCap
AppendEmbeddingDropNewest(embeddings, track_embedding) ==
    LET longer == Append(embeddings, track_embedding)
    IN  IF Len(longer) > BufCap THEN SubSeq(longer, 1, Len(longer) - 1) ELSE longer

\* append, then pop(0) when the buffer is longer than BufCap
AppendEmbedding(embeddings, track_embedding) ==
    LET longer == Append(embeddings, track_embedding)
    IN  IF Len(longer) > BufCap THEN Tail(longer) ELSE longer

\* the position of key gid in the dict, 0 when absent
KeyIndex(tracks, gid) ==
    IF \E i \in 1..Len(tracks) : tracks[i].gid = gid
    THEN CHOOSE i \in 1..Len(tracks) : tracks[i].gid = gid
    ELSE 0

\* self.global_tracks[gid] = data: overwrite in place or insert at the end
DictSet(tracks, gid, data) ==
    LET k == KeyIndex(tracks, gid)
        item == [gid |-> gid, embeddings |-> data.embeddings,
                 last_seen |-> data.last_seen, last_camera |-> data.last_camera]
    IN  IF k = 0 THEN Append(tracks, item) ELSE [tracks EXCEPT ![k] = item]

\* the match branch, stamping last_seen on every identity
MergeStampingAll(tracks, gid, track_embedding, timestamp, camera_id) ==
    [i \in 1..Len(tracks) |->
        IF tracks[i].gid = gid
        THEN [gid |-> gid,
              embeddings |-> AppendEmbedding(tracks[i].embeddings, track_embedding),
              last_seen |-> timestamp,
              last_camera |-> camera_id]
        ELSE [tracks[i] EXCEPT !.last_seen = timestamp]]

\* the branch taken when a match is found
Merge(tracks, gid, track_embedding, timestamp, camera_id) ==
    LET k == KeyIndex(tracks, gid)
    IN  [tracks EXCEPT ![k] =
            [gid |-> gid,
             embeddings |-> AppendEmbedding(tracks[k].embeddings, track_embedding),
             last_seen |-> timestamp,
             last_camera |-> camera_id]]

NextIdStuck(next_id) == next_id

\* self.next_global_id += 1
NextId(next_id) == next_id + 1

\* match_track as a function of the matcher's state: the new dict, the new
\* counter and the returned global id
match_track(tracks, next_id, thr, cn, track_embedding, timestamp, camera_id) ==
    LET best == BestMatch(tracks, cn, track_embedding, timestamp, camera_id)
    IN  IF IsMatch(best.min_dist, thr)
        THEN [global_tracks |-> Merge(tracks, best.best_match_id, track_embedding,
                                      timestamp, camera_id),
              next_global_id |-> next_id,
              ret |-> best.best_match_id]
        ELSE [global_tracks |-> DictSet(tracks, next_id,
                                    [embeddings |-> <<track_embedding>>,
                                     last_seen |-> timestamp,
                                     last_camera |-> camera_id]),
              next_global_id |-> NextId(next_id),
              ret |-> next_id]

-----------------------------------------------------------------------------
(* AlertManager *)
(* Times and durations are whole seconds.  An event keeps the fields the   *)
(* state machine decides: video_id, frame_id, class_name and t_sync are    *)
(* copied from the arguments of update into the event unchanged.           *)

TrackIds == {"t1", "t2"}
Zones == {"z1", "z2"}

DefaultMinDuration == 2

Entry(zone_id, start_time, confirmed) ==
    [zone_id |-> zone_id, start_time |-> start_time, confirmed |-> confirmed]

Event(event_type, track_id, zone_id, duration, t) ==
    [event_type |-> event_type, track_id |-> track_id, zone_id |-> zone_id,
     duration |-> duration, t |-> t]

\* defaultdict(dict) with no key
EmptyDict == [t \in {} |-> <<>>]

\* self.active_intrusions[track_id]: the zone entries of a track, a dict in
\* insertion order; a missing track reads as the empty dict
EntriesOf(ai, track_id) == IF track_id \in DOMAIN ai THEN ai[track_id] ELSE <<>>

\* position of zone_id among the entries, 0 when zone_id is not a key
ZoneIndex(entries, zone_id) ==
    IF \E i \in 1..Len(entries) : entries[i].zone_id = zone_id
    THEN CHOOSE i \in 1..Len(entries) : entries[i].zone_id = zone_id
    ELSE 0

\* zone_id in zone_ids
InList(zone_ids, zone_id) == \E i \in 1..Len(zone_ids) : zone_ids[i] = zone_id

ImmediateStrict(md) == md < 0

\* self.min_duration <= 0: immediate confirmation mode
Immediate(md) == md <= 0

ReachedStrict(duration, md) == duration > md

\* duration >= self.min_duration
Reached(duration, md) == duration >= md

\* an iteration that confirms again an entry already confirmed
EnterZoneReconfirming(st, md, track_id, zone_id, current_time) ==
    LET k == ZoneIndex(st.entries, zone_id)
    IN  IF k = 0
        THEN [entries |-> Append(st.entries, Entry(zone_id, current_time, Immediate(md))),
              events |-> IF Immediate(md)
                         THEN Append(st.events,
                                     Event("intrusion_confirmed", track_id, zone_id,
                                           0, current_time))
                         ELSE st.events]
        ELSE LET duration == current_time - st.entries[k].start_time
             IN  IF Reached(duration, md)
                 THEN [entries |-> [st.entries EXCEPT ![k].confirmed = TRUE],
                       events |-> Append(st.events,
                                      Event("intrusion_confirmed", track_id, zone_id,
                                            duration, current_time))]
                 ELSE st

\* one iteration of the loop over zone_ids: a new or a continuing intrusion
EnterZone(st, md, track_id, zone_id, current_time) ==
    LET k == ZoneIndex(st.entries, zone_id)
    IN  IF k = 0
        THEN IF Immediate(md)
             THEN [entries |-> Append(st.entries, Entry(zone_id, current_time, TRUE)),
                   events |-> Append(st.events,
                                  Event("intrusion_confirmed", track_id, zone_id,
                                        0, current_time))]
             ELSE [entries |-> Append(st.entries, Entry(zone_id, current_time, FALSE)),
                   events |-> st.events]
        ELSE LET duration == current_time - st.entries[k].start_time
             IN  IF Reached(duration, md) /\ ~st.entries[k].confirmed
                 THEN [entries |-> [st.entries EXCEPT ![k].confirmed = TRUE],
                       events |-> Append(st.events,
                                      Event("intrusion_confirmed", track_id, zone_id,
                                            duration, current_time))]
                 ELSE st

\* for zone_id in zone_ids: ...
EnterZones(entries, md, track_id, zone_ids, current_time) ==
    LET f[i \in 0..Len(zone_ids)] ==
            IF i = 0 THEN [entries |-> entries, events |-> <<>>]
            ELSE EnterZone(f[i - 1], md, track_id, zone_ids[i], current_time)
    IN  f[Len(zone_ids)]

EndsWithEventAlways(entry) == TRUE

\* self.active_intrusions[track_id][zone_id].get("confirmed")
EndsWithEvent(entry) == entry.confirmed

\* the intrusion_ended events of the loop over the keys of the track
EndedEvents(entries, track_id, zone_ids, current_time) ==
    LET gone == SelectSeq(entries, LAMBDA e :
                    ~InList(zone_ids, e.zone_id) /\ EndsWithEvent(e))
    IN  [i \in 1..Len(gone) |->
            Event("intrusion_ended", track_id, gone[i].zone_id,
                  current_time - gone[i].start_time, current_time)]

RemainingOrPending(entries, zone_ids) ==
    SelectSeq(entries, LAMBDA e : InList(zone_ids, e.zone_id) \/ ~e.confirmed)

\* del self.active_intrusions[track_id][zone_id] for every key not in zone_ids
Remaining(entries, zone_ids) ==
    SelectSeq(entries, LAMBDA e : InList(zone_ids, e.zone_id))

StoreEntriesForAll(ai, track_id, entries) ==
    [t \in DOMAIN ai \cup {track_id} |-> entries]

\* the entries of track_id after the call; the other tracks are not touched
StoreEntries(ai, track_id, entries) ==
    [t \in DOMAIN ai \cup {track_id} |-> IF t = track_id THEN entries ELSE ai[t]]

\* AlertManager.update: the dict after the call and the events it logged
update(ai, md, track_id, zone_ids, frame_time) ==
    LET current_time == frame_time
        entered == EnterZones(EntriesOf(ai, track_id), md, track_id, zone_ids,
                              current_time)
        ended == EndedEvents(entered.entries, track_id, zone_ids, current_time)
    IN  [active_intrusions |->
             StoreEntries(ai, track_id, Remaining(entered.entries, zone_ids)),
         events |-> entered.events \o ended]

ShownStrict(duration, md) == duration > md

\* get_active_alerts: duration >= self.min_duration
Shown(duration, md) == duration >= md

\* AlertManager.get_active_alerts
get_active_alerts(ai, md, track_id, current_time) ==
    IF track_id \in DOMAIN ai
    THEN LET shown == SelectSeq(ai[track_id], LAMBDA e :
                          Shown(current_time - e.start_time, md))
         IN  [i \in 1..Len(shown) |->
                 <<shown[i].zone_id, current_time - shown[i].start_time>>]
    ELSE <<>>

NoUpdate ==
    [n |-> 0, track_id |-> "t1", zone_ids |-> <<>>, frame_time |-> 0,
     before |-> EmptyDict, emitted |-> <<>>, alerts |-> <<>>]

NoStay ==
    [started |-> FALSE, open |-> FALSE, reached |-> FALSE, updates |-> 0,
     events |-> 0]

NoTime == [last |-> None, ok |-> TRUE]

\* AlertManager.__init__
NewAlertManager(md) ==
    /\ min_duration = md
    /\ active_intrusions = EmptyDict
    /\ events = <<>>
    /\ now = 0
    /\ upd = NoUpdate
    /\ stay = [p \in TrackIds \X Zones |-> NoStay]
    /\ mono = [t \in TrackIds |-> NoTime]

\* VideoProcessor.process is not running
NoVideo ==
    /\ vp_pc = "idle"
    /\ frame_id = 0
    /\ videos = 0

NoAlerts == NewAlertManager(DefaultMinDuration) /\ NoVideo

\* dedup_time_window_s of enrich_events_with_global_ids
DefaultWindow == 2

\* no deduplication has been asked for
NoDedup ==
    /\ dd_cfg = [zones |-> [z \in {} |-> [name |-> None]],
                 camera_network |-> None, time_window_s |-> DefaultWindow]
    /\ dd_in = <<>>
    /\ dd_out = None
    /\ dd_in2 = <<>>
    /\ dd_out2 = None

\* no enrichment has been asked for
NoEnrich ==
    /\ trajectories = <<>>
    /\ events_file = <<>>
    /\ events_before = <<>>
    /\ enrich_runs = 0

\* main() is not running
NoMain ==
    /\ main_pc = "idle"
    /\ file_video = <<>>

\* no ZoneManager has been constructed
NoZones ==
    /\ zone_table = <<>>
    /\ zones_file = <<>>
    /\ zm_op = <<>>
    /\ zm_prev = <<>>
    /\ zm_n = 0

-----------------------------------------------------------------------------
(* The matcher as a state machine *)

Thresholds == {20, 30}

\* where and when a track was first seen: the camera_id and the timestamp of
\* a call (either may be unknown)
Sighting(camera_id, timestamp) == [camera_id |-> camera_id, timestamp |-> timestamp]

Sightings ==
    { Sighting("c1", Some(0)), Sighting("c2", Some(1)), Sighting("c1", Some(3)),
      Sighting(NoCamera, Some(1)), Sighting("c2", None) }

\* the camera networks a matcher is built with
MatchNetworks ==
    { CameraNetwork(<<Edge("c1", "c2", Some(2), None),
                      Edge("c2", "c1", None, Some(1))>>, None, TRUE),
      CameraNetwork(<<Edge("c1", "c2", None, None)>>, Some(1), FALSE) }

\* the embeddings of one real person; the others belong to somebody else
PersonEmbeddings == {<<5, 0>>, <<4, 3>>}

NoCall == [emb |-> <<0, 0>>, timestamp |-> None, camera_id |-> NoCamera,
           ret |-> 0, before |-> <<>>]

NoChain == [gid |-> 0, n |-> 0, created |-> FALSE, premise |-> TRUE,
            strict |-> TRUE, same |-> TRUE]

NoQuery == [asked |-> FALSE, prev |-> NoCamera, new |-> NoCamera,
            dt |-> None, result |-> TRUE]

\* run_global_matching is not running and there is no track store
NoRun ==
    /\ pc = "idle"
    /\ store = <<>>
    /\ json_files = <<>>
    /\ loaded = <<>>
    /\ all_tracks = <<>>
    /\ files_to_save = <<>>
    /\ presented = <<>>

\* ReIDMatcher.__init__
NewMatcher(thr, cn) ==
    /\ threshold = thr
    /\ camera_network = cn
    /\ global_tracks = <<>>
    /\ next_global_id = 1
    /\ calls = 0
    /\ last = NoCall
    /\ hist = <<>>
    /\ chain = NoChain
    /\ query = NoQuery

Init ==
    /\ \E thr \in Thresholds, cn \in {None} \cup {Some(n) : n \in MatchNetworks} :
          NewMatcher(thr, cn)
    /\ NoRun
    /\ NoAlerts
    /\ NoDedup
    /\ NoEnrich
    /\ NoZones
    /\ NoMain

Ids(tracks) == {tracks[i].gid : i \in 1..Len(tracks)}

Get(tracks, gid) == tracks[KeyIndex(tracks, gid)]

\* every embedding ever given to an identity, kept next to the dict
Remember(h, gid, emb, isNew) ==
    IF isNew
    THEN DictSet(h, gid, [embeddings |-> <<emb>>, last_seen |-> None,
                          last_camera |-> NoCamera])
    ELSE LET k == KeyIndex(h, gid)
         IN  [h EXCEPT ![k].embeddings = Append(@, emb)]

\* the identity of tracks survives the gating of a call
Survives(cn, data, timestamp, camera_id) ==
    \/ IsNone(cn)
    \/ allowed_transition(Val(cn), data.last_camera, camera_id,
                          GateDt(timestamp, data.last_seen))

\* the smallest cosine distance from emb to a stored embedding of data
MinDist(emb, data) ==
    CHOOSE d \in {cosine(emb, data.embeddings[i]) : i \in 1..Len(data.embeddings)} :
        \A i \in 1..Len(data.embeddings) : d <= cosine(emb, data.embeddings[i])

\* the embeddings of one real person (isPerson) among the calls: the id given
\* to the first of them, and whether the later ones were each below the
\* threshold from the buffer of that identity and were given the same id
Follow(c, tracks, thr, cn, emb, timestamp, camera_id, ret, isPerson) ==
    IF ~isPerson THEN c
    ELSE IF c.gid = 0
    THEN [gid |-> ret, n |-> 1, created |-> ret \notin Ids(tracks),
          premise |-> TRUE, strict |-> TRUE, same |-> TRUE]
    ELSE LET mine == Get(tracks, c.gid)
             near == MinDist(emb, mine) < thr
             best == /\ Survives(cn, mine, timestamp, camera_id)
                     /\ \A i \in 1..Len(tracks) :
                          (/\ tracks[i].gid # c.gid
                           /\ Survives(cn, tracks[i], timestamp, camera_id))
                          => IF tracks[i].gid < c.gid
                             THEN MinDist(emb, mine) < MinDist(emb, tracks[i])
                             ELSE MinDist(emb, mine) <= MinDist(emb, tracks[i])
         IN  [c EXCEPT !.n = @ + 1,
                       !.premise = @ /\ near,
                       !.strict = @ /\ near /\ best,
                       !.same = @ /\ ret = c.gid]

\* one call of match_track
Call(emb, timestamp, camera_id, isPerson) ==
    LET r == match_track(global_tracks, next_global_id, threshold,
                         camera_network, emb, timestamp, camera_id)
    IN  /\ global_tracks' = r.global_tracks
        /\ next_global_id' = r.next_global_id
        /\ calls' = calls + 1
        /\ last' = [emb |-> emb, timestamp |-> timestamp,
                    camera_id |-> camera_id, ret |-> r.ret,
                    before |-> global_tracks]
        /\ hist' = Remember(hist, r.ret, emb, r.ret \notin Ids(global_tracks))
        /\ chain' = Follow(chain, global_tracks, threshold, camera_network,
                           emb, timestamp, camera_id, r.ret, isPerson)
        /\ UNCHANGED <<threshold, camera_network, query>>

MatchTrack ==
    /\ calls < MaxCalls
    /\ \E emb \in Embeddings, s \in Sightings :
            Call(emb, s.timestamp, s.camera_id, emb \in PersonEmbeddings)
    /\ UNCHANGED gmvars
    /\ UNCHANGED amvars
    /\ UNCHANGED ddvars
    /\ UNCHANGED envars
    /\ UNCHANGED zmvars
    /\ UNCHANGED mnvars

Next == MatchTrack

Spec == Init /\ [][Next]_vars

-----------------------------------------------------------------------------
(* One identity fed many embeddings: the ring buffer *)

BufEmbeddings == {<<5, 0>>, <<4, 3>>}

InitBuf ==
    /\ \E thr \in Thresholds : NewMatcher(thr, None)
    /\ NoRun
    /\ NoAlerts
    /\ NoDedup
    /\ NoEnrich
    /\ NoZones
    /\ NoMain

MatchTrackBuf ==
    /\ calls < MaxBufCalls
    /\ \E emb \in BufEmbeddings : Call(emb, Some(calls), NoCamera, FALSE)
    /\ UNCHANGED gmvars
    /\ UNCHANGED amvars
    /\ UNCHANGED ddvars
    /\ UNCHANGED envars
    /\ UNCHANGED zmvars
    /\ UNCHANGED mnvars

NextBuf == MatchTrackBuf

SpecBuf == InitBuf /\ [][NextBuf]_vars

-----------------------------------------------------------------------------
(* allowed_transition as a function of the network and its arguments *)

EdgePool ==
    { Edge("c1", "c2", None, None), Edge("c1", "c2", Some(1), Some(2)),
      Edge("c1", "c2", None, Some(1)), Edge("c1", "c2", Some(2), None),
      Edge("c2", "c1", Some(0), Some(0)) }

EdgeLists == {<<>>} \cup {<<e>> : e \in EdgePool}
                    \cup {<<e, f>> : e \in EdgePool, f \in EdgePool}

Gaps == {None, Some(1), Some(2)}

QueryNetworks ==
    {CameraNetwork(es, gap, same) : es \in EdgeLists, gap \in Gaps, same \in BOOLEAN}

QueryCameras == {"c1", "c2", "c3", NoCamera}

QueryDts == {None} \cup {Some(d) : d \in (0 - MaxDt)..MaxDt}

InitNet ==
    /\ \E net \in QueryNetworks : camera_network = Some(net)
    /\ \E prev \in QueryCameras, new \in QueryCameras, dt \in QueryDts :
          query = [asked |-> FALSE, prev |-> prev, new |-> new, dt |-> dt,
                   result |-> TRUE]
    /\ threshold = 30
    /\ global_tracks = <<>>
    /\ next_global_id = 1
    /\ calls = 0
    /\ last = NoCall
    /\ hist = <<>>
    /\ chain = NoChain
    /\ NoRun
    /\ NoAlerts
    /\ NoDedup
    /\ NoEnrich
    /\ NoZones
    /\ NoMain

AllowedTransition ==
    /\ ~query.asked
    /\ query' = [query EXCEPT
                    !.asked = TRUE,
                    !.result = allowed_transition(Val(camera_network),
                                                  query.prev, query.new, query.dt)]
    /\ UNCHANGED <<threshold, camera_network, global_tracks, next_global_id,
                   calls, last, hist, chain>>
    /\ UNCHANGED gmvars
    /\ UNCHANGED amvars
    /\ UNCHANGED ddvars
    /\ UNCHANGED envars
    /\ UNCHANGED zmvars
    /\ UNCHANGED mnvars

NextNet == AllowedTransition

SpecNet == InitNet /\ [][NextNet]_vars

-----------------------------------------------------------------------------
(* run_global_matching over the track store *)

\* threshold=0.5 and max_embeddings_per_track=5, the defaults main uses
GMThreshold == 50
MaxEmbeddingsPerTrack == 5

NoClass == "None"

Frame(t, t_sync) == [t |-> t, t_sync |-> t_sync]

Track(class_name, embeddings, frames) ==
    [track_id |-> 0, class_name |-> class_name, embeddings |-> embeddings,
     frames |-> frames, global_id |-> None]

\* the tracks a trajectory file may hold: persons with one or two embeddings,
\* a track without class_name, a person whose embeddings are empty or
\* missing, a car, and a malformed person track without frames
TrackKinds ==
    { Track("person", Some(<<<<5, 0>>>>), <<Frame(Some(0), Some(1))>>),
      Track("person", Some(<<<<4, 3>>, <<4, -3>>>>), <<Frame(Some(0), None)>>),
      Track(NoClass, Some(<<<<0, 5>>>>), <<Frame(Some(1), Some(2))>>),
      Track("person", Some(<<>>), <<Frame(Some(0), Some(0))>>),
      Track("person", None, <<Frame(Some(0), Some(3))>>),
      Track("car", Some(<<<<5, 0>>>>), <<Frame(Some(0), Some(1))>>),
      Track("person", Some(<<<<5, 0>>>>), <<>>) }

\* track_id is unique within a file
WithIds(ts) == [i \in 1..Len(ts) |-> [ts[i] EXCEPT !.track_id = i]]

Document(ts) == [readable |-> TRUE, trajectories |-> WithIds(ts)]

Unreadable == [readable |-> FALSE, trajectories |-> <<>>]

SeqsUpTo(S, n) == UNION {[1..m -> S] : m \in 0..n}

Files == {Document(ts) : ts \in SeqsUpTo(TrackKinds, MaxTracks)}

OtherFiles ==
    { Unreadable,
      Document(<<Track("person", Some(<<<<5, 0>>>>), <<Frame(Some(0), Some(1))>>)>>),
      Document(<<Track(NoClass, Some(<<<<0, 5>>>>), <<Frame(Some(1), Some(2))>>),
                 Track("person", Some(<<<<4, 3>>, <<4, -3>>>>), <<Frame(Some(0), None)>>)>>) }

Stores == {<<>>} \cup {<<f>> : f \in Files}
                 \cup {<<f, g>> : f \in Files, g \in OtherFiles}

\* the orders in which the glob may list n files
Orders(n) == {p \in [1..n -> 1..n] : \A i \in 1..n : \E j \in 1..n : p[j] = i}

InitGM ==
    /\ store \in Stores
    /\ pc = "start"
    /\ json_files = <<>>
    /\ loaded = <<>>
    /\ all_tracks = <<>>
    /\ files_to_save = <<>>
    /\ presented = <<>>
    /\ NewMatcher(GMThreshold, None)
    /\ NoAlerts
    /\ NoDedup
    /\ NoEnrich
    /\ NoZones
    /\ NoMain

\* if not json_files: return
ReturnNoFiles ==
    /\ pc = "start"
    /\ Len(store) = 0
    /\ pc' = "done"
    /\ UNCHANGED <<threshold, camera_network, global_tracks, next_global_id,
                   calls, last, hist, chain, query, store, json_files, loaded,
                   all_tracks, files_to_save, presented>>
    /\ UNCHANGED amvars
    /\ UNCHANGED ddvars
    /\ UNCHANGED envars
    /\ UNCHANGED zmvars
    /\ UNCHANGED mnvars

\* json_files = list(traj_dir.glob("*.json")); matcher = ReIDMatcher(threshold)
StartRun ==
    /\ pc = "start"
    /\ Len(store) > 0
    /\ json_files' \in Orders(Len(store))
    /\ threshold' = GMThreshold
    /\ camera_network' = None
    /\ global_tracks' = <<>>
    /\ next_global_id' = 1
    /\ pc' = "load"
    /\ UNCHANGED <<calls, last, hist, chain, query, store, loaded, all_tracks,
                   files_to_save, presented>>
    /\ UNCHANGED amvars
    /\ UNCHANGED ddvars
    /\ UNCHANGED envars
    /\ UNCHANGED zmvars
    /\ UNCHANGED mnvars

\* "embeddings" in track and track["embeddings"]
HasEmbeddings(track) ==
    /\ ~IsNone(track.embeddings)
    /\ Len(Val(track.embeddings)) > 0

\* class_name is not None and class_name != "person"
NotPerson(track) == track.class_name # NoClass /\ track.class_name # "person"

\* frames[0].get("t_sync", frames[0].get("t", 0.0))
FirstFrameTime(frame) ==
    IF ~IsNone(frame.t_sync) THEN Val(frame.t_sync)
    ELSE IF ~IsNone(frame.t) THEN Val(frame.t)
    ELSE 0

\* the body of the try block for one file: the items it appends to
\* all_tracks up to the first track that raises (a track with embeddings and
\* no frame), nothing at all when the file cannot be read
TracksOfFile(path, doc) ==
    LET ts == doc.trajectories
        loop[i \in 0..Len(ts)] ==
            IF i = 0 THEN [items |-> <<>>, raised |-> ~doc.readable]
            ELSE LET acc == loop[i - 1]
                     track == ts[i]
                 IN  IF acc.raised \/ NotPerson(track) \/ ~HasEmbeddings(track)
                     THEN acc
                     ELSE IF Len(track.frames) = 0
                     THEN [acc EXCEPT !.raised = TRUE]
                     ELSE [acc EXCEPT !.items = Append(@,
                              [file_path |-> path,
                               pos |-> i,
                               track_id |-> track.track_id,
                               embeddings |-> Val(track.embeddings),
                               timestamp |-> FirstFrameTime(track.frames[1])])]
    IN  loop[Len(ts)].items

\* one iteration of the loop over json_files
LoadFile ==
    /\ pc = "load"
    /\ Len(loaded) < Len(json_files)
    /\ LET path == json_files[Len(loaded) + 1]
           doc == store[path]
       IN  /\ loaded' = Append(loaded,
                   [file_path |-> path,
                    data |-> IF doc.readable THEN Some(doc.trajectories) ELSE None])
           /\ all_tracks' = all_tracks \o TracksOfFile(path, doc)
    /\ UNCHANGED <<threshold, camera_network, global_tracks, next_global_id,
                   calls, last, hist, chain, query, pc, store, json_files,
                   files_to_save, presented>>
    /\ UNCHANGED amvars
    /\ UNCHANGED ddvars
    /\ UNCHANGED envars
    /\ UNCHANGED zmvars
    /\ UNCHANGED mnvars

AsLoaded(items) == items

\* list.sort(key=timestamp): stable, ascending
SortByTimestamp(items) ==
    LET Insert(sorted, x) ==
            LET n == Cardinality({j \in 1..Len(sorted) :
                                     sorted[j].timestamp <= x.timestamp})
            IN  SubSeq(sorted, 1, n) \o <<x>> \o SubSeq(sorted, n + 1, Len(sorted))
        sort[i \in 0..Len(items)] ==
            IF i = 0 THEN <<>> ELSE Insert(sort[i - 1], items[i])
    IN  sort[Len(items)]

\* all_tracks.sort(key=lambda x: x["timestamp"])
SortTracks ==
    /\ pc = "load"
    /\ Len(loaded) = Len(json_files)
    /\ all_tracks' = SortByTimestamp(all_tracks)
    /\ pc' = "match"
    /\ UNCHANGED <<threshold, camera_network, global_tracks, next_global_id,
                   calls, last, hist, chain, query, store, json_files, loaded,
                   files_to_save, presented>>
    /\ UNCHANGED amvars
    /\ UNCHANGED ddvars
    /\ UNCHANGED envars
    /\ UNCHANGED zmvars
    /\ UNCHANGED mnvars

\* track["embeddings"][:max_embeddings_per_track]
Take(s, n) == IF Len(s) <= n THEN s ELSE SubSeq(s, 1, n)

\* np.mean(np.array(embs), axis=0)
Mean(embs) ==
    << SeqSum([i \in 1..Len(embs) |-> embs[i][1]]) \div Len(embs),
       SeqSum([i \in 1..Len(embs) |-> embs[i][2]]) \div Len(embs) >>

\* track_ref["global_id"] = global_id, on the parsed document of the file
SetGlobalId(docs, path, pos, gid) ==
    [k \in 1..Len(docs) |->
        IF docs[k].file_path = path
        THEN [docs[k] EXCEPT !.data =
                 Some([Val(@) EXCEPT ![pos].global_id = Some(gid)])]
        ELSE docs[k]]

\* files_to_save[path] = data
MarkToSave(paths, path) ==
    IF \E k \in 1..Len(paths) : paths[k] = path THEN paths ELSE Append(paths, path)

\* one iteration of the matching loop
MatchNext ==
    /\ pc = "match"
    /\ Len(presented) < Len(all_tracks)
    /\ LET track == all_tracks[Len(presented) + 1]
           emb == Mean(Take(track.embeddings, MaxEmbeddingsPerTrack))
       IN  /\ Call(emb, Some(track.timestamp), NoCamera, FALSE)
           /\ loaded' = SetGlobalId(loaded, track.file_path, track.pos, last'.ret)
           /\ files_to_save' = MarkToSave(files_to_save, track.file_path)
           /\ presented' = Append(presented,
                               [file_path |-> track.file_path, pos |-> track.pos])
    /\ UNCHANGED <<pc, store, json_files, all_tracks>>
    /\ UNCHANGED amvars
    /\ UNCHANGED ddvars
    /\ UNCHANGED envars
    /\ UNCHANGED zmvars
    /\ UNCHANGED mnvars

\* the document parsed from a file
DataOf(docs, path) ==
    Val(docs[CHOOSE k \in 1..Len(docs) : docs[k].file_path = path].data)

\* json.dump(data, f) for every file of files_to_save, then return
SaveFiles ==
    /\ pc = "match"
    /\ Len(presented) = Len(all_tracks)
    /\ store' = [f \in 1..Len(store) |->
                    IF \E k \in 1..Len(files_to_save) : files_to_save[k] = f
                    THEN [store[f] EXCEPT !.trajectories = DataOf(loaded, f)]
                    ELSE store[f]]
    /\ pc' = "done"
    /\ UNCHANGED <<threshold, camera_network, global_tracks, next_global_id,
                   calls, last, hist, chain, query, json_files, loaded,
                   all_tracks, files_to_save, presented>>
    /\ UNCHANGED amvars
    /\ UNCHANGED ddvars
    /\ UNCHANGED envars
    /\ UNCHANGED zmvars
    /\ UNCHANGED mnvars

NextGM ==
    \/ ReturnNoFiles
    \/ StartRun
    \/ LoadFile
    \/ SortTracks
    \/ MatchNext
    \/ SaveFiles

SpecGM == InitGM /\ [][NextGM]_vars

-----------------------------------------------------------------------------
(* AlertManager driven by arbitrary updates *)

MinDurations == {0, DefaultMinDuration}

ZoneLists == {<<>>, <<"z1">>, <<"z2">>, <<"z1", "z2">>}

\* the (track_id, zone_ids) of one call
UpdateArgs ==
    {<<"t1", zs>> : zs \in ZoneLists} \cup {<<"t2", <<>>>>, <<"t2", <<"z1">>>>}

\* how far the frame time of a call is from the time of the call before it
TimeSteps == {-1, 1, 2}

\* the events of a list that concern one zone
CountFor(evs, zone_id) ==
    Cardinality({i \in 1..Len(evs) : evs[i].zone_id = zone_id})

\* the history of the latest stay of (track_id, zone_id) after an update
StayAfter(h, before, md, zone_ids, zone_id, t, emitted) ==
    LET k == ZoneIndex(before, zone_id)
        n == CountFor(emitted, zone_id)
    IN  IF InList(zone_ids, zone_id)
        THEN IF k = 0
             THEN [started |-> TRUE, open |-> TRUE, reached |-> 0 >= md,
                   updates |-> 1, events |-> n]
             ELSE [h EXCEPT !.reached = h.reached \/ t - before[k].start_time >= md,
                            !.updates = h.updates + 1,
                            !.events = h.events + n]
        ELSE IF k = 0 THEN h
             ELSE [h EXCEPT !.open = FALSE, !.events = h.events + n]

TimeAfter(m, t) ==
    [last |-> Some(t), ok |-> m.ok /\ (IsNone(m.last) \/ Val(m.last) <= t)]

InitAlert ==
    /\ NewMatcher(30, None)
    /\ NoRun
    /\ \E md \in MinDurations : NewAlertManager(md)
    /\ NoVideo
    /\ NoDedup
    /\ NoEnrich
    /\ NoZones
    /\ NoMain

\* update(track_id, zone_ids, frame_time, ...) followed, as in the frame
\* loop, by get_active_alerts(track_id, frame_time)
Update ==
    /\ upd.n < MaxUpdates
    /\ \E a \in UpdateArgs, dt \in TimeSteps :
          LET track_id == a[1]
              zone_ids == a[2]
              t == now + dt
              r == update(active_intrusions, min_duration, track_id, zone_ids, t)
          IN  /\ t >= 0
              /\ active_intrusions' = r.active_intrusions
              /\ events' = events \o r.events
              /\ now' = t
              /\ upd' = [n |-> upd.n + 1, track_id |-> track_id,
                         zone_ids |-> zone_ids, frame_time |-> t,
                         before |-> active_intrusions, emitted |-> r.events,
                         alerts |-> get_active_alerts(r.active_intrusions,
                                                      min_duration, track_id, t)]
              /\ stay' = [p \in TrackIds \X Zones |->
                            IF p[1] # track_id THEN stay[p]
                            ELSE StayAfter(stay[p],
                                           EntriesOf(active_intrusions, track_id),
                                           min_duration, zone_ids, p[2], t,
                                           r.events)]
              /\ mono' = [mono EXCEPT ![track_id] = TimeAfter(mono[track_id], t)]
    /\ UNCHANGED <<min_duration, vp_pc, frame_id, videos>>
    /\ UNCHANGED idvars
    /\ UNCHANGED gmvars
    /\ UNCHANGED ddvars
    /\ UNCHANGED envars
    /\ UNCHANGED zmvars
    /\ UNCHANGED mnvars

NextAlert == Update

SpecAlert == InitAlert /\ [][NextAlert]_vars

-----------------------------------------------------------------------------
(* VideoProcessor.process: the frame loop feeding AlertManager *)

\* frames per second of the video: current_time = frame_id / fps
Fps == 1

TrackInFrame(track_id, violations) ==
    [track_id |-> track_id, violations |-> violations]

\* the tracks the trackers return for one frame, with the zones of each
FrameTracks ==
    { <<>>,
      <<TrackInFrame("t1", <<>>)>>,
      <<TrackInFrame("t1", <<"z1">>)>>,
      <<TrackInFrame("t1", <<"z1">>), TrackInFrame("t2", <<"z1">>)>> }

InitVideo ==
    /\ NewMatcher(30, None)
    /\ NoRun
    /\ NewAlertManager(DefaultMinDuration)
    /\ NoVideo
    /\ NoDedup
    /\ NoEnrich
    /\ NoZones
    /\ NoMain

\* process(): _reset_state_for_new_video(), then the video is opened
StartVideo ==
    /\ vp_pc \in {"idle", "done"}
    /\ videos < MaxVideos
    /\ active_intrusions' = EmptyDict
    /\ frame_id' = 0
    /\ videos' = videos + 1
    /\ \/ vp_pc' = "frames"
       \/ vp_pc' = "done"      \* cap.isOpened() is false: return None
    /\ UNCHANGED <<min_duration, events, now, upd, stay, mono>>
    /\ UNCHANGED idvars
    /\ UNCHANGED gmvars
    /\ UNCHANGED ddvars
    /\ UNCHANGED envars
    /\ UNCHANGED zmvars
    /\ UNCHANGED mnvars

\* for trk in tracks: alert_manager.update(tid, violations, current_time, ...)
UpdateAll(ai, md, tracks, current_time) ==
    LET f[i \in 0..Len(tracks)] ==
            IF i = 0 THEN [active_intrusions |-> ai, events |-> <<>>]
            ELSE LET r == update(f[i - 1].active_intrusions, md,
                                 tracks[i].track_id, tracks[i].violations,
                                 current_time)
                 IN  [active_intrusions |-> r.active_intrusions,
                      events |-> f[i - 1].events \o r.events]
    IN  f[Len(tracks)]

\* one iteration of the frame loop
ProcessFrame ==
    /\ vp_pc = "frames"
    /\ frame_id < MaxFrames
    /\ frame_id' = frame_id + 1
    /\ \E tracks \in FrameTracks :
          LET current_time == frame_id' \div Fps
              r == UpdateAll(active_intrusions, min_duration, tracks, current_time)
          IN  /\ active_intrusions' = r.active_intrusions
              /\ events' = events \o r.events
              /\ now' = current_time
    /\ UNCHANGED <<min_duration, upd, stay, mono, vp_pc, videos>>
    /\ UNCHANGED idvars
    /\ UNCHANGED gmvars
    /\ UNCHANGED ddvars
    /\ UNCHANGED envars
    /\ UNCHANGED zmvars
    /\ UNCHANGED mnvars

\* the detector or a tracker raises: the frame is counted and skipped
FrameError ==
    /\ vp_pc = "frames"
    /\ frame_id < MaxFrames
    /\ frame_id' = frame_id + 1
    /\ UNCHANGED <<min_duration, active_intrusions, events, now, upd, stay,
                   mono, vp_pc, videos>>
    /\ UNCHANGED idvars
    /\ UNCHANGED gmvars
    /\ UNCHANGED ddvars
    /\ UNCHANGED envars
    /\ UNCHANGED zmvars
    /\ UNCHANGED mnvars

\* cap.read() returns no frame: the loop ends and process returns
EndOfVideo ==
    /\ vp_pc = "frames"
    /\ vp_pc' = "done"
    /\ UNCHANGED <<min_duration, active_intrusions, events, now, upd, stay,
                   mono, frame_id, videos>>
    /\ UNCHANGED idvars
    /\ UNCHANGED gmvars
    /\ UNCHANGED ddvars
    /\ UNCHANGED envars
    /\ UNCHANGED zmvars
    /\ UNCHANGED mnvars

NextVideo ==
    \/ StartVideo
    \/ ProcessFrame
    \/ FrameError
    \/ EndOfVideo

SpecVideo == InitVideo /\ [][NextVideo]_vars

-----------------------------------------------------------------------------
(* event_enricher._dedup_overlapping_zone_events *)
(* A zone name is a sequence of characters; an enriched event keeps the    *)
(* fields the deduplication reads or writes.                               *)

\* str.strip(): drop the blanks at both ends
RECURSIVE Strip(_)
Strip(s) ==
    IF s = <<>> THEN s
    ELSE IF Head(s) = " " THEN Strip(Tail(s))
    ELSE IF s[Len(s)] = " " THEN Strip(SubSeq(s, 1, Len(s) - 1))
    ELSE s

\* str.lower()
Lower(s) == [i \in 1..Len(s) |-> IF s[i] = "A" THEN "a" ELSE s[i]]

\* _normalize_zone_name: None stays None, an empty result is None
_normalize_zone_name(name) ==
    IF IsNone(name) THEN None
    ELSE LET s == Lower(Strip(Val(name)))
         IN  IF s = <<>> THEN None ELSE Some(s)

\* zone_key: the normalized name of the zone when zones knows one, else the
\* zone_id itself
zone_key(zones, e) ==
    LET name == IF e.zone_id \in DOMAIN zones
                THEN _normalize_zone_name(zones[e.zone_id].name)
                ELSE None
    IN  IF IsNone(name) THEN <<e.zone_id>> ELSE Val(name)

\* CameraNetwork.neighbors_out
neighbors_out(net, camera_id) ==
    IF is_open(net) THEN {}
    ELSE {e.dst : e \in {net.edges[i] : i \in {j \in 1..Len(net.edges) :
                                              net.edges[j].src = camera_id}}}

\* CameraNetwork.are_adjacent
are_adjacent(net, a, b) ==
    IF is_open(net) THEN TRUE
    ELSE b \in neighbors_out(net, a) \/ a \in neighbors_out(net, b)

\* e.get(field) of an event that lacks the field
Absent == "None"

\* an adjacency that asks the network whenever the cameras differ
is_adjacent_asking_network(cn, cam_a, cam_b) ==
    IF cam_a = cam_b THEN TRUE
    ELSE IF IsNone(cn) THEN TRUE
    ELSE are_adjacent(Val(cn), cam_a, cam_b)

\* is_adjacent of the deduplication
is_adjacent(cn, cam_a, cam_b) ==
    IF cam_a = cam_b THEN TRUE
    ELSE IF IsNone(cn) THEN FALSE
    ELSE IF is_open(Val(cn)) THEN FALSE
    ELSE are_adjacent(Val(cn), cam_a, cam_b)

\* the sort key of an event: its t_sync, or infinity when it has none
TKeyDescending(e) == IF IsNone(e.t_sync) THEN Inf ELSE 0 - Val(e.t_sync)

\* the sort key of an event: t_sync, or infinity
TKey(e) == IF IsNone(e.t_sync) THEN Inf ELSE Val(e.t_sync)

Unsorted(evs) == evs

\* list.sort(key=...) is stable: equal keys keep their order
SortByTSync(evs) ==
    LET Place(sorted, e) ==
            LET k == Cardinality({i \in 1..Len(sorted) : TKey(sorted[i]) <= TKey(e)})
            IN  SubSeq(sorted, 1, k) \o <<e>> \o SubSeq(sorted, k + 1, Len(sorted))
        f[i \in 0..Len(evs)] ==
            IF i = 0 THEN <<>> ELSE Place(f[i - 1], evs[i])
    IN  f[Len(evs)]

AbsDiff(a, b) == IF a >= b THEN a - b ELSE b - a

MergedFromEntryOfPrev(prev, e) ==
    [video_id |-> prev.video_id, track_id |-> prev.track_id,
     zone_id |-> prev.zone_id, t_sync |-> Val(prev.t_sync),
     frame_id |-> prev.frame_id]

\* the entry appended to prev["merged_from"] for the absorbed event e
MergedFromEntry(prev, e) ==
    [video_id |-> e.video_id, track_id |-> e.track_id, zone_id |-> e.zone_id,
     t_sync |-> Val(e.t_sync), frame_id |-> e.frame_id]

\* the event takes the place of the representative of its key
PutAsLast(st, key, e) ==
    IF key \in DOMAIN st.last_by_key
    THEN [st EXCEPT !.out[st.last_by_key[key]] = e]
    ELSE [out |-> Append(st.out, e),
          last_by_key |-> [k \in DOMAIN st.last_by_key \cup {key} |->
                              IF k = key THEN Len(st.out) + 1 ELSE st.last_by_key[k]]]

\* out.append(e); last_by_key[key] = len(out) - 1
AppendAsLast(st, key, e) ==
    [out |-> Append(st.out, e),
     last_by_key |-> [k \in DOMAIN st.last_by_key \cup {key} |->
                         IF k = key THEN Len(st.out) + 1 ELSE st.last_by_key[k]]]

\* one iteration of the forward pass
DedupStep(st, cfg, e) ==
    IF \/ IsNone(e.global_id) \/ e.event_type = Absent \/ IsNone(e.t_sync)
       \/ e.video_id = Absent \/ e.zone_id = Absent
    THEN [st EXCEPT !.out = Append(st.out, e)]
    ELSE LET key == <<Val(e.global_id), e.event_type, zone_key(cfg.zones, e)>>
         IN  IF key \notin DOMAIN st.last_by_key
             THEN AppendAsLast(st, key, e)
             ELSE LET prev_idx == st.last_by_key[key]
                      prev == st.out[prev_idx]
                  IN  IF IsNone(prev.t_sync) \/ prev.video_id = Absent
                      THEN AppendAsLast(st, key, e)
                      ELSE IF /\ AbsDiff(Val(e.t_sync), Val(prev.t_sync))
                                     <= cfg.time_window_s
                              /\ is_adjacent(cfg.camera_network,
                                             prev.video_id, e.video_id)
                      THEN [st EXCEPT !.out[prev_idx] =
                              [prev EXCEPT
                                 !.merged_from =
                                     Append(prev.merged_from, MergedFromEntry(prev, e)),
                                 !.t_sync =
                                     IF Val(e.t_sync) < Val(prev.t_sync)
                                     THEN e.t_sync ELSE prev.t_sync]]
                      ELSE AppendAsLast(st, key, e)

\* _dedup_overlapping_zone_events(events, zones, camera_network, time_window_s)
_dedup_overlapping_zone_events(evs, cfg) ==
    LET indexed == SortByTSync(evs)
        f[i \in 0..Len(indexed)] ==
            IF i = 0 THEN [out |-> <<>>, last_by_key |-> [k \in {} |-> 0]]
            ELSE DedupStep(f[i - 1], cfg, indexed[i])
    IN  SortByTSync(f[Len(indexed)].out)

EnrichedEvent(video_id, track_id, zone_id, global_id, t_sync, frame) ==
    [event_type |-> "intrusion_confirmed", video_id |-> video_id,
     track_id |-> track_id, zone_id |-> zone_id, global_id |-> global_id,
     t_sync |-> t_sync, frame_id |-> frame, merged_from |-> <<>>]

\* the events a run may find in the events file
EventPool ==
    { EnrichedEvent("c1", "a", "zA", Some(7), Some(0), 10),
      EnrichedEvent("c2", "b", "zB", Some(7), Some(3), 13),
      EnrichedEvent("c3", "c", "zA", Some(7), Some(1), 11),
      EnrichedEvent("c1", "a", "zA", Some(7), Some(2), 12),
      EnrichedEvent("c2", "b", "zA", Some(7), Some(0), 20),
      EnrichedEvent("c2", "b", "zA", None, Some(1), 21),
      EnrichedEvent("c1", "d", "zA", Some(7), None, 22),
      EnrichedEvent(Absent, "a", "zA", Some(7), Some(1), 23),
      [EnrichedEvent("c1", "a", Absent, Some(7), Some(0), 24)
          EXCEPT !.event_type = Absent] }

\* lists of distinct events of the pool
EventLists ==
    {s \in SeqsUpTo(EventPool, MaxEvents) :
        \A i \in 1..Len(s), j \in 1..Len(s) : i # j => s[i] # s[j]}

\* data/zones_interdites.json: two zones that share a name up to case and
\* blanks, or no zones file
ZoneFiles ==
    { [z \in {"zA", "zB"} |->
          [name |-> IF z = "zA" THEN Some(<<"A">>) ELSE Some(<<" ", "a", " ">>)]],
      [z \in {} |-> [name |-> None]] }

\* camera_network: c1 -> c2 declared, no file (open network), or None
DedupNetworks ==
    { Some(CameraNetwork(<<Edge("c1", "c2", None, None)>>, None, TRUE)),
      Some(CameraNetwork(<<>>, None, TRUE)),
      None }

-----------------------------------------------------------------------------
(* The deduplication as a function of the events and of their order *)

InitDedup ==
    /\ NewMatcher(30, None)
    /\ NoRun
    /\ NoAlerts
    /\ \E zones \in ZoneFiles, cn \in DedupNetworks :
          dd_cfg = [zones |-> zones, camera_network |-> cn,
                    time_window_s |-> DefaultWindow]
    /\ dd_in \in EventLists
    /\ dd_out = None
    /\ dd_in2 = <<>>
    /\ dd_out2 = None
    /\ NoEnrich
    /\ NoZones
    /\ NoMain

\* the events of evs in the order p
Reordered(evs, p) == [i \in 1..Len(evs) |-> evs[p[i]]]

\* events = _dedup_overlapping_zone_events(events, ...)
Dedup ==
    /\ IsNone(dd_out)
    /\ dd_out' = Some(_dedup_overlapping_zone_events(dd_in, dd_cfg))
    /\ UNCHANGED <<dd_cfg, dd_in, dd_in2, dd_out2>>
    /\ UNCHANGED idvars
    /\ UNCHANGED gmvars
    /\ UNCHANGED amvars
    /\ UNCHANGED envars
    /\ UNCHANGED zmvars
    /\ UNCHANGED mnvars

\* the same events are deduplicated again, read in another order
DedupReordered ==
    /\ ~IsNone(dd_out)
    /\ IsNone(dd_out2)
    /\ \E p \in Orders(Len(dd_in)) :
          /\ dd_in2' = Reordered(dd_in, p)
          /\ dd_out2' = Some(_dedup_overlapping_zone_events(Reordered(dd_in, p),
                                                            dd_cfg))
    /\ UNCHANGED <<dd_cfg, dd_in, dd_out>>
    /\ UNCHANGED idvars
    /\ UNCHANGED gmvars
    /\ UNCHANGED amvars
    /\ UNCHANGED envars
    /\ UNCHANGED zmvars
    /\ UNCHANGED mnvars

NextDedup ==
    \/ Dedup
    \/ DedupReordered

SpecDedup == InitDedup /\ [][NextDedup]_vars

-----------------------------------------------------------------------------
(* event_enricher.enrich_events_with_global_ids *)

\* TrackAppearance, as _load_trajectory_files derives it from a track
TrackAppearance(video_id, track_id, class_name, global_id, t_start_sync, t_end_sync) ==
    [video_id |-> video_id, track_id |-> track_id, class_name |-> class_name,
     global_id |-> global_id, t_start_sync |-> t_start_sync,
     t_end_sync |-> t_end_sync]

\* track_map.get((vid, tid)): the last appearance stored under the key
track_map_get(apps, vid, tid) ==
    LET hits == SelectSeq(apps, LAMBDA a : a.video_id = vid /\ a.track_id = tid)
    IN  IF hits = <<>> THEN None ELSE Some(hits[Len(hits)])

\* the sort key of an appearance: t_start_sync, or infinity
StartKey(a) == IF IsNone(a.t_start_sync) THEN Inf ELSE Val(a.t_start_sync)

\* list.sort(key=t_start_sync) is stable: a is placed after the appearances
\* that do not start later
PlaceByStart(sorted, a) ==
    LET k == Cardinality({i \in 1..Len(sorted) : StartKey(sorted[i]) <= StartKey(a)})
    IN  SubSeq(sorted, 1, k) \o <<a>> \o SubSeq(sorted, k + 1, Len(sorted))

\* appearances_by_gid.get(gid, []): the appearances of gid, sorted by
\* t_start_sync
appearances_by_gid(apps, gid) ==
    LET mine == SelectSeq(apps, LAMBDA a : a.global_id = Some(gid))
        f[i \in 0..Len(mine)] ==
            IF i = 0 THEN <<>> ELSE PlaceByStart(f[i - 1], mine[i])
    IN  f[Len(mine)]

\* CameraNetwork.neighbors_in
neighbors_in(net, camera_id) ==
    IF is_open(net) THEN {}
    ELSE {e.src : e \in {net.edges[i] : i \in {j \in 1..Len(net.edges) :
                                              net.edges[j].dst = camera_id}}}

IncomingOfAny(cn, event_video_id) == None

\* incoming / outgoing of _find_prev_next_camera: <<>> when unrestricted
Incoming(cn, event_video_id) ==
    IF ~IsNone(cn) /\ ~is_open(Val(cn))
    THEN Some(neighbors_in(Val(cn), event_video_id)) ELSE None

Outgoing(cn, event_video_id) ==
    IF ~IsNone(cn) /\ ~is_open(Val(cn))
    THEN Some(neighbors_out(Val(cn), event_video_id)) ELSE None

EndsEarlier(app, prev_app) ==
    Val(app.t_end_sync) < Val(Val(prev_app).t_end_sync)

\* app.t_end_sync > prev_app.t_end_sync
EndsLater(app, prev_app) ==
    Val(app.t_end_sync) > Val(Val(prev_app).t_end_sync)

\* the first loop of _find_prev_next_camera
FindPrev(appearances, event_video_id, event_t_sync, incoming) ==
    LET f[i \in 0..Len(appearances)] ==
            IF i = 0 THEN None
            ELSE LET app == appearances[i]
                     prev_app == f[i - 1]
                 IN  IF app.video_id = event_video_id THEN prev_app
                     ELSE IF ~IsNone(incoming) /\ app.video_id \notin Val(incoming)
                     THEN prev_app
                     ELSE IF /\ ~IsNone(app.t_end_sync)
                             /\ Val(app.t_end_sync) < event_t_sync
                             /\ \/ IsNone(prev_app)
                                \/ IsNone(Val(prev_app).t_end_sync)
                                \/ EndsLater(app, prev_app)
                     THEN Some(app)
                     ELSE prev_app
    IN  f[Len(appearances)]

\* the second loop of _find_prev_next_camera
FindNext(appearances, event_video_id, event_t_sync, outgoing) ==
    LET f[i \in 0..Len(appearances)] ==
            IF i = 0 THEN None
            ELSE LET app == appearances[i]
                     next_app == f[i - 1]
                 IN  IF app.video_id = event_video_id THEN next_app
                     ELSE IF ~IsNone(outgoing) /\ app.video_id \notin Val(outgoing)
                     THEN next_app
                     ELSE IF /\ ~IsNone(app.t_start_sync)
                             /\ Val(app.t_start_sync) > event_t_sync
                             /\ \/ IsNone(next_app)
                                \/ IsNone(Val(next_app).t_start_sync)
                                \/ Val(app.t_start_sync) < Val(Val(next_app).t_start_sync)
                     THEN Some(app)
                     ELSE next_app
    IN  f[Len(appearances)]

\* _to_dict
ToDict(app) ==
    IF IsNone(app) THEN None
    ELSE Some([video_id |-> Val(app).video_id, track_id |-> Val(app).track_id,
               t_start_sync |-> Val(app).t_start_sync,
               t_end_sync |-> Val(app).t_end_sync])

\* the body of the loop over the events of enrich_events_with_global_ids
EnrichEvent(e, apps, cfg) ==
    LET z == IF e.zone_id \in DOMAIN cfg.zones
             THEN cfg.zones[e.zone_id].name ELSE None
        named == IF IsNone(e.zone_name) /\ ~IsNone(z)
                 THEN [e EXCEPT !.zone_name = z] ELSE e
        app == track_map_get(apps, e.video_id, e.track_id)
    IN  IF IsNone(app) THEN named
        ELSE LET a == Val(app)
                 classed == [named EXCEPT
                                !.class_name = IF IsNone(named.class_name)
                                               THEN a.class_name
                                               ELSE named.class_name]
                 joined ==
                     IF IsNone(a.global_id) THEN classed
                     ELSE IF IsNone(e.t_sync)
                     THEN [classed EXCEPT !.global_id = a.global_id]
                     ELSE LET mine == appearances_by_gid(apps, Val(a.global_id))
                              restricted == /\ ~IsNone(cfg.camera_network)
                                            /\ ~is_open(Val(cfg.camera_network))
                          IN  [classed EXCEPT
                                 !.global_id = a.global_id,
                                 !.prev_camera =
                                     ToDict(FindPrev(mine, e.video_id, Val(e.t_sync),
                                               Incoming(cfg.camera_network, e.video_id))),
                                 !.next_camera =
                                     ToDict(FindNext(mine, e.video_id, Val(e.t_sync),
                                               Outgoing(cfg.camera_network, e.video_id))),
                                 !.prev_camera_candidates =
                                     IF restricted
                                     THEN Some(neighbors_in(Val(cfg.camera_network),
                                                            e.video_id))
                                     ELSE classed.prev_camera_candidates,
                                 !.next_camera_candidates =
                                     IF restricted
                                     THEN Some(neighbors_out(Val(cfg.camera_network),
                                                             e.video_id))
                                     ELSE classed.next_camera_candidates]
             IN  [joined EXCEPT !.enriched = TRUE]

\* enrich_events_with_global_ids with dedup_overlapping_zones and in_place:
\* the events written back to the events file
enrich_events_with_global_ids(evs, apps, cfg) ==
    _dedup_overlapping_zone_events(
        [i \in 1..Len(evs) |-> EnrichEvent(evs[i], apps, cfg)], cfg)

\* an event as AlertManager wrote it
RawEvent(video_id, track_id, zone_id, t, t_sync, frame) ==
    [event_type |-> "intrusion_confirmed", video_id |-> video_id,
     track_id |-> track_id, zone_id |-> zone_id, frame_id |-> frame, t |-> t,
     t_sync |-> t_sync, class_name |-> None, global_id |-> None,
     prev_camera |-> None, next_camera |-> None, merged_from |-> <<>>,
     zone_name |-> None, enriched |-> FALSE,
     prev_camera_candidates |-> None, next_camera_candidates |-> None]

\* the raw events a run may find in the events file
RawPool ==
    { RawEvent("c2", "b", "zA", 1, Some(3), 30),
      RawEvent("c1", "a", "zA", 1, Some(1), 10),
      RawEvent("c2", "b", "zA", 3, Some(5), 50),
      RawEvent("c2", "f", "zA", 1, Some(2), 20),
      RawEvent("c2", "x", "zB", 2, Some(2), 21),
      RawEvent("c2", "b", "zA", 2, None, 31) }

RawLists ==
    {s \in SeqsUpTo(RawPool, MaxEvents) :
        \A i \in 1..Len(s), j \in 1..Len(s) : i # j => s[i] # s[j]}

\* the tracks of the store that every run has, and those it may have
FixedTracks ==
    << TrackAppearance("c2", "b", None, Some(7), Some(2), Some(6)),
       TrackAppearance("c2", "f", Some("car"), None, Some(1), Some(3)),
       TrackAppearance("c1", "a", Some("person"), Some(7), Some(0), Some(1)),
       TrackAppearance("c1", "d", Some("person"), Some(7), Some(7), Some(8)) >>

OptionalTracks ==
    << TrackAppearance("c3", "c", Some("person"), Some(7), Some(0), Some(2)),
       TrackAppearance("c3", "e", Some("person"), Some(7), Some(6), Some(8)) >>

\* the appearances read from data/trajectories, in the order of the glob
TrackStores ==
    { FixedTracks \o SelectSeq(OptionalTracks,
                               LAMBDA a : \E k \in S : OptionalTracks[k] = a) :
      S \in SUBSET (1..Len(OptionalTracks)) }

\* configs/zones.json for the enrichment: zA and zB carry the same name
EnrichZones ==
    [z \in {"zA", "zB"} |->
        [name |-> IF z = "zA" THEN Some(<<"A">>) ELSE Some(<<" ", "a", " ">>)]]

\* configs/camera_network.json for the enrichment
EnrichNetworks ==
    { Some(CameraNetwork(<<>>, None, TRUE)),
      Some(CameraNetwork(<<Edge("c1", "c2", None, None)>>, None, TRUE)),
      Some(CameraNetwork(<<Edge("c1", "c2", None, None),
                           Edge("c3", "c2", None, None),
                           Edge("c2", "c3", None, None)>>, None, TRUE)) }

InitEnrich ==
    /\ NewMatcher(30, None)
    /\ NoRun
    /\ NoAlerts
    /\ \E cn \in EnrichNetworks :
          dd_cfg = [zones |-> EnrichZones, camera_network |-> cn,
                    time_window_s |-> DefaultWindow]
    /\ dd_in = <<>>
    /\ dd_out = None
    /\ dd_in2 = <<>>
    /\ dd_out2 = None
    /\ trajectories \in TrackStores
    /\ events_file \in RawLists
    /\ events_before = <<>>
    /\ enrich_runs = 0
    /\ NoZones
    /\ NoMain

\* one run of enrich_events_with_global_ids on the events file, in place
Enrich ==
    /\ enrich_runs < MaxRuns
    /\ events_before' = events_file
    /\ events_file' = enrich_events_with_global_ids(events_file, trajectories, dd_cfg)
    /\ enrich_runs' = enrich_runs + 1
    /\ UNCHANGED trajectories
    /\ UNCHANGED idvars
    /\ UNCHANGED gmvars
    /\ UNCHANGED amvars
    /\ UNCHANGED ddvars
    /\ UNCHANGED zmvars
    /\ UNCHANGED mnvars

NextEnrich == Enrich

SpecEnrich == InitEnrich /\ [][NextEnrich]_vars

-----------------------------------------------------------------------------
(* zones.zone_manager.ZoneManager *)

\* points are <<x, y>>, polygons are sequences of points
Cross(o, a, b) == (a[1] - o[1]) * (b[2] - o[2]) - (a[2] - o[2]) * (b[1] - o[1])

\* p lies on the closed segment a-b
OnSegment(p, a, b) ==
    /\ Cross(a, b, p) = 0
    /\ \A k \in {1, 2} : \/ a[k] <= p[k] /\ p[k] <= b[k]
                         \/ b[k] <= p[k] /\ p[k] <= a[k]

\* the closed segments a-b and c-d have a point in common
SegmentsIntersect(a, b, c, d) ==
    \/ /\ Cross(a, b, c) * Cross(a, b, d) < 0
       /\ Cross(c, d, a) * Cross(c, d, b) < 0
    \/ OnSegment(c, a, b)
    \/ OnSegment(d, a, b)
    \/ OnSegment(a, c, d)
    \/ OnSegment(b, c, d)

\* the index after i on the ring of n vertices
Succ(i, n) == (i % n) + 1

\* twice the signed area of the ring (shoelace formula)
RECURSIVE Shoelace(_, _)
Shoelace(poly, i) ==
    IF i = 0 THEN 0
    ELSE poly[i][1] * poly[Succ(i, Len(poly))][2]
         - poly[Succ(i, Len(poly))][1] * poly[i][2]
         + Shoelace(poly, i - 1)

\* Polygon.area
PolygonArea(poly) ==
    LET s == Shoelace(poly, Len(poly))
    IN  (IF s >= 0 THEN s ELSE 0 - s) \div 2

\* Polygon(points) raises for a ring of one or two points
PolygonRaises(points) == Len(points) \in {1, 2}

\* Polygon.is_valid: a simple ring that encloses an area
is_valid(poly) ==
    LET n == Len(poly) IN
    /\ n >= 3
    /\ Shoelace(poly, n) # 0
    /\ \A i \in 1..n, j \in 1..n :
          (i < j /\ j # Succ(i, n) /\ i # Succ(j, n)) =>
              ~SegmentsIntersect(poly[i], poly[Succ(i, n)],
                                 poly[j], poly[Succ(j, n)])
    /\ \A i \in 1..n :
          ~OnSegment(poly[Succ(Succ(i, n), n)], poly[i], poly[Succ(i, n)])

\* p lies on the ring
OnBoundary(poly, p) ==
    \E i \in 1..Len(poly) : OnSegment(p, poly[i], poly[Succ(i, Len(poly))])

\* the edges of the ring that a ray from p to the right crosses
RayCrossings(poly, p) ==
    {i \in 1..Len(poly) :
        LET a == poly[i]
            b == poly[Succ(i, Len(poly))]
        IN  /\ (a[2] > p[2]) # (b[2] > p[2])
            /\ IF b[2] > a[2] THEN Cross(a, b, p) > 0 ELSE Cross(a, b, p) < 0}

\* p lies inside the ring or on it
covers(poly, p) ==
    OnBoundary(poly, p) \/ Cardinality(RayCrossings(poly, p)) % 2 = 1

\* Polygon.contains(Point): p lies in the interior, not on the boundary
contains(poly, p) ==
    ~OnBoundary(poly, p) /\ Cardinality(RayCrossings(poly, p)) % 2 = 1

\* Polygon.intersects(Polygon): the two closed regions have a point in common
intersects(poly, rect) ==
    \/ \E i \in 1..Len(poly), j \in 1..Len(rect) :
          SegmentsIntersect(poly[i], poly[Succ(i, Len(poly))],
                            rect[j], rect[Succ(j, Len(rect))])
    \/ \E j \in 1..Len(rect) : covers(poly, rect[j])
    \/ \E i \in 1..Len(poly) : covers(rect, poly[i])

\* str.upper() on the letters of the camera ids
Upper(s) ==
    [i \in 1..Len(s) |->
        CASE s[i] = "c" -> "C" [] s[i] = "a" -> "A" [] s[i] = "m" -> "M"
          [] s[i] = "e" -> "E" [] s[i] = "r" -> "R" [] s[i] = "x" -> "X"
          [] s[i] = "y" -> "Y" [] OTHER -> s[i]]

CameraPrefix == <<"C", "A", "M", "E", "R", "A", "_">>

\* str.startswith
StartsWith(s, prefix) ==
    Len(s) >= Len(prefix) /\ SubSeq(s, 1, Len(prefix)) = prefix

\* ZoneManager._normalize_camera_id
_normalize_camera_id(camera_id) ==
    IF IsNone(camera_id) THEN None
    ELSE LET cam == Strip(Val(camera_id))
             cam_up == Upper(cam)
         IN  IF StartsWith(cam_up, CameraPrefix)
             THEN Some(SubSeq(cam, Len(CameraPrefix) + 1, Len(cam)))
             ELSE Some(cam)

\* ZoneManager._camera_matches
_camera_matches(zone_camera_id, query_camera_id) ==
    IF IsNone(query_camera_id) THEN TRUE
    ELSE _normalize_camera_id(zone_camera_id) = _normalize_camera_id(query_camera_id)

\* the truth value of the camera_id argument: None and "" are false
Truthy(camera_id) == ~IsNone(camera_id) /\ Val(camera_id) # <<>>

\* the zone stored by create_zone
Zone(zone_id, name, camera_id, polygon_points, description) ==
    [zone_id |-> zone_id, name |-> name, camera_id |-> camera_id,
     polygon |-> polygon_points, description |-> description,
     active |-> TRUE, area |-> PolygonArea(polygon_points)]

\* self.zones[zone_id] = zone
Stored(zs, zone_id, zone) ==
    [z \in DOMAIN zs \cup {zone_id} |-> IF z = zone_id THEN zone ELSE zs[z]]

create_zone_unvalidated(zs, zone_id, name, camera_id, polygon_points, description) ==
    [zones |-> IF PolygonRaises(polygon_points) THEN zs
               ELSE Stored(zs, zone_id, Zone(zone_id, name, camera_id,
                                             polygon_points, description)),
     raised |-> \/ Len(polygon_points) < 3
                \/ PolygonRaises(polygon_points)
                \/ ~is_valid(polygon_points)]

\* create_zone: the table after the call, and whether the call raised
create_zone(zs, zone_id, name, camera_id, polygon_points, description) ==
    IF Len(polygon_points) < 3
    THEN [zones |-> zs, raised |-> TRUE]
    ELSE IF PolygonRaises(polygon_points) \/ ~is_valid(polygon_points)
    THEN [zones |-> zs, raised |-> TRUE]
    ELSE [zones |-> Stored(zs, zone_id, Zone(zone_id, name, camera_id,
                                             polygon_points, description)),
          raised |-> FALSE]

IsActiveAlways(zone) == TRUE

\* zone.get("active", True)
IsActive(zone) == zone.active

ContainsOrTouches(zone, x, y) == covers(zone.polygon, <<x, y>>)

\* Polygon(zone["polygon"]).contains(Point(x, y))
ZoneContains(zone, x, y) == contains(zone.polygon, <<x, y>>)

\* is_point_in_zone
is_point_in_zone(zs, x, y, zone_id) ==
    IF zone_id \notin DOMAIN zs THEN FALSE
    ELSE IF ~IsActive(zs[zone_id]) THEN FALSE
    ELSE ZoneContains(zs[zone_id], x, y)

\* check_point_all_zones: the zone ids of the list it returns
check_point_all_zones(zs, x, y, camera_id) ==
    {zone_id \in DOMAIN zs :
        /\ ~(Truthy(camera_id) /\ ~_camera_matches(zs[zone_id].camera_id, camera_id))
        /\ is_point_in_zone(zs, x, y, zone_id)}

\* check_bbox_all_zones: the zone ids of the list it returns
check_bbox_all_zones(zs, bbox, camera_id) ==
    LET rect == << <<bbox[1], bbox[2]>>, <<bbox[3], bbox[2]>>,
                   <<bbox[3], bbox[4]>>, <<bbox[1], bbox[4]>> >>
    IN  {zone_id \in DOMAIN zs :
            /\ ~(Truthy(camera_id)
                 /\ ~_camera_matches(zs[zone_id].camera_id, camera_id))
            /\ IsActive(zs[zone_id])
            /\ intersects(IF "_polygon_obj" \in DOMAIN zs[zone_id]
                          THEN zs[zone_id]._polygon_obj
                          ELSE zs[zone_id].polygon, rect)}

SavedAsActive(zone) ==
    [zone_id |-> zone.zone_id, name |-> zone.name, camera_id |-> zone.camera_id,
     polygon |-> zone.polygon, description |-> zone.description,
     active |-> TRUE, area |-> zone.area]

\* the entry save_zones writes for a zone
Saved(zone) ==
    [zone_id |-> zone.zone_id, name |-> zone.name, camera_id |-> zone.camera_id,
     polygon |-> zone.polygon, description |-> zone.description,
     active |-> zone.active, area |-> zone.area]

\* save_zones: the document written to zones_file
save_zones(zs) == [z \in DOMAIN zs |-> Saved(zs[z])]

\* the zone of the document with its polygon object
Loaded(zone) ==
    [zone_id |-> zone.zone_id, name |-> zone.name, camera_id |-> zone.camera_id,
     polygon |-> zone.polygon, description |-> zone.description,
     active |-> zone.active, area |-> zone.area, _polygon_obj |-> zone.polygon]

\* load_zones: the table after the call; any exception empties it
load_zones(file) ==
    IF IsNone(file) THEN <<>>
    ELSE IF \E z \in DOMAIN Val(file) : PolygonRaises(Val(file)[z].polygon)
    THEN <<>>
    ELSE [z \in DOMAIN Val(file) |-> Loaded(Val(file)[z])]

\* deactivate_zone / activate_zone
set_active(zs, zone_id, flag) ==
    IF zone_id \in DOMAIN zs
    THEN [zs EXCEPT ![zone_id] = [zs[zone_id] EXCEPT !.active = flag]]
    ELSE zs

\* delete_zone
delete_zone(zs, zone_id) ==
    IF zone_id \in DOMAIN zs
    THEN [z \in DOMAIN zs \ {zone_id} |-> zs[z]]
    ELSE zs

ZoneIds == {"z1", "z2"}

\* camera ids as strings of characters
CamUpperPrefixed == <<"C", "A", "M", "E", "R", "A", "_", "x">>
CamLowerPrefixed == <<"c", "a", "m", "e", "r", "a", "_", "x">>
CamLower == <<"x">>
CamUpper == <<"X">>
CamSpaced == <<" ", "x">>
CamOther == <<"y">>

CameraIds ==
    {CamUpperPrefixed, CamLowerPrefixed, CamLower, CamUpper, CamSpaced, CamOther}

\* the camera_id argument of a query
ZoneQueryCameras == {None, Some(<<>>)} \cup {Some(c) : c \in CameraIds}

PSquare == << <<0, 0>>, <<4, 0>>, <<4, 4>>, <<0, 4>> >>
PWide == << <<2, 2>>, <<8, 2>>, <<8, 6>>, <<2, 6>> >>
PBowtie == << <<0, 0>>, <<4, 4>>, <<4, 0>>, <<0, 4>> >>
PTwoPoints == << <<0, 0>>, <<4, 4>> >>

\* the arguments of the create_zone calls
CreateArgs ==
    { <<"z1", CamUpperPrefixed, PSquare>>,
      <<"z1", CamUpper, PWide>>,
      <<"z2", CamOther, PWide>>,
      <<"z2", CamLower, PSquare>>,
      <<"z1", CamUpper, PBowtie>>,
      <<"z2", CamOther, PTwoPoints>> }

\* the points and the boxes of the queries
QueryPoints == {<<x, y>> : x \in {0, 2, 4, 5, 9}, y \in {0, 2, 4, 7}}

QueryBoxes ==
    { <<1, 1, 3, 3>>, <<3, 3, 7, 5>>, <<4, 0, 6, 2>>, <<4, 4, 5, 5>>,
      <<5, 0, 7, 1>>, <<8, 6, 9, 7>>, <<-1, -1, 9, 9>>, <<9, 0, 10, 1>> }

\* zones documents found on disk at construction
Documents ==
    { [z \in {"z1", "z2"} |->
          [zone_id |-> z, name |-> "Zone", camera_id |-> Some(CamLowerPrefixed),
           polygon |-> IF z = "z1" THEN PSquare ELSE PWide,
           description |-> "", active |-> z = "z1",
           area |-> IF z = "z1" THEN 16 ELSE 24]],
      [z \in {"z1", "z2"} |->
          [zone_id |-> z, name |-> "Zone", camera_id |-> Some(CamLower),
           polygon |-> IF z = "z1" THEN PSquare ELSE PTwoPoints,
           description |-> "", active |-> TRUE, area |-> 0]] }

\* a call: its name, its zone_id and polygon arguments, whether it raised,
\* and the name of the call before it
Op(name, zone_id, polygon, raised, before) ==
    [name |-> name, zone_id |-> zone_id, polygon |-> polygon,
     raised |-> raised, before |-> before]

\* ZoneManager(zones_file): the file is loaded when it exists
InitZones ==
    /\ NewMatcher(30, None)
    /\ NoRun
    /\ NoAlerts
    /\ NoDedup
    /\ NoEnrich
    /\ NoMain
    /\ zones_file \in {None} \cup {Some(d) : d \in Documents}
    /\ zone_table = load_zones(zones_file)
    /\ zm_prev = <<>>
    /\ zm_op = Op("init", "", <<>>, FALSE, "")
    /\ zm_n = 0

ZoneStep(table, file, op) ==
    /\ zm_n < MaxOps
    /\ zm_n' = zm_n + 1
    /\ zm_prev' = zone_table
    /\ zone_table' = table
    /\ zones_file' = file
    /\ zm_op' = op
    /\ UNCHANGED idvars
    /\ UNCHANGED gmvars
    /\ UNCHANGED amvars
    /\ UNCHANGED ddvars
    /\ UNCHANGED envars
    /\ UNCHANGED mnvars

CreateZone ==
    \E a \in CreateArgs :
        LET r == create_zone(zone_table, a[1], "Zone", Some(a[2]), a[3], "")
        IN  ZoneStep(r.zones, zones_file, Op("create", a[1], a[3], r.raised, zm_op.name))

DeactivateZone ==
    \E z \in ZoneIds :
        ZoneStep(set_active(zone_table, z, FALSE), zones_file,
                 Op("deactivate", z, <<>>, FALSE, zm_op.name))

ActivateZone ==
    \E z \in ZoneIds :
        ZoneStep(set_active(zone_table, z, TRUE), zones_file,
                 Op("activate", z, <<>>, FALSE, zm_op.name))

DeleteZone ==
    \E z \in ZoneIds :
        ZoneStep(delete_zone(zone_table, z), zones_file,
                 Op("delete", z, <<>>, FALSE, zm_op.name))

SaveZones ==
    ZoneStep(zone_table, Some(save_zones(zone_table)),
             Op("save", "", <<>>, FALSE, zm_op.name))

LoadZones ==
    ZoneStep(load_zones(zones_file), zones_file,
             Op("load", "", <<>>, FALSE, zm_op.name))

NextZones ==
    \/ CreateZone
    \/ DeactivateZone
    \/ ActivateZone
    \/ DeleteZone
    \/ SaveZones
    \/ LoadZones

SpecZones == InitZones /\ [][NextZones]_vars

-----------------------------------------------------------------------------
(* main(): the videos one after the other, then run_global_matching, then  *)
(* the reanalysis when no event was logged, then the enrichment            *)

\* video_path.stem of the n-th video of videos_to_process
VideoId(n) == IF n = 1 THEN "c1" ELSE IF n = 2 THEN "c2" ELSE "c3"

\* the track_id the tracker gave to the track at a position of a saved file
TrackUid(k) == IF k = 1 THEN "t1" ELSE "t2"

\* the tracks of one frame of a video: nobody, or t1 in the zone z1
MainFrameTracks == {<<>>, <<TrackInFrame("t1", <<"z1">>)>>}

\* the line log_event appends to the events file for an event of update
LoggedEvent(ev, video_id, frame, sync_offset) ==
    [RawEvent(video_id, ev.track_id, ev.zone_id, ev.t, Some(ev.t + sync_offset),
              frame) EXCEPT !.event_type = ev.event_type]

\* what _save_trajectories may write for a video: one person whose
\* embedding is that of the person of another video, or of nobody else, or
\* who has no embedding
SavedFiles ==
    { Document(<<Track("person", Some(<<<<5, 0>>>>), <<Frame(Some(1), Some(1))>>)>>),
      Document(<<Track("person", Some(<<<<0, 5>>>>), <<Frame(Some(1), Some(1))>>)>>),
      Document(<<Track("person", None, <<Frame(Some(1), Some(1))>>)>>) }

\* the zones file and the camera network the enrichment of main() loads
MainConfig ==
    [zones |-> [z \in {"z1"} |-> [name |-> Some(<<"A">>)]],
     camera_network |-> Some(CameraNetwork(<<>>, None, TRUE)),
     time_window_s |-> DefaultWindow]

\* main() up to the loop over the videos: no trajectory file, an empty
\* events file, one VideoProcessor
InitMain ==
    /\ NewMatcher(GMThreshold, None)
    /\ NoRun
    /\ NewAlertManager(DefaultMinDuration)
    /\ NoVideo
    /\ dd_cfg = MainConfig
    /\ dd_in = <<>>
    /\ dd_out = None
    /\ dd_in2 = <<>>
    /\ dd_out2 = None
    /\ NoEnrich
    /\ NoZones
    /\ main_pc = "videos"
    /\ file_video = <<>>

\* the next iteration of the loop over the videos: processor.process(...)
ProcessVideo ==
    /\ main_pc = "videos"
    /\ StartVideo

\* one iteration of the frame loop of process: the zones of every track are
\* checked and the events of the updates are appended to the events file
VideoFrame ==
    /\ main_pc = "videos"
    /\ vp_pc = "frames"
    /\ frame_id < MaxFrames
    /\ frame_id' = frame_id + 1
    /\ \E tracks \in MainFrameTracks :
          LET current_time == frame_id' \div Fps
              r == UpdateAll(active_intrusions, min_duration, tracks, current_time)
          IN  /\ active_intrusions' = r.active_intrusions
              /\ events' = events \o r.events
              /\ events_file' = events_file \o
                     [i \in 1..Len(r.events) |->
                         LoggedEvent(r.events[i], VideoId(videos), frame_id', 0)]
              /\ now' = current_time
    /\ UNCHANGED <<min_duration, upd, stay, mono, vp_pc, videos>>
    /\ UNCHANGED <<trajectories, events_before, enrich_runs>>
    /\ UNCHANGED idvars
    /\ UNCHANGED gmvars
    /\ UNCHANGED ddvars
    /\ UNCHANGED zmvars
    /\ UNCHANGED mnvars

\* the frame loop ends and _save_trajectories writes the file of the video
SaveTrajectories ==
    /\ main_pc = "videos"
    /\ vp_pc = "frames"
    /\ vp_pc' = "done"
    /\ \E doc \in SavedFiles : store' = Append(store, doc)
    /\ file_video' = Append(file_video, VideoId(videos))
    /\ UNCHANGED <<pc, json_files, loaded, all_tracks, files_to_save, presented>>
    /\ UNCHANGED <<min_duration, active_intrusions, events, now, upd, stay,
                   mono, frame_id, videos>>
    /\ UNCHANGED main_pc
    /\ UNCHANGED idvars
    /\ UNCHANGED ddvars
    /\ UNCHANGED envars
    /\ UNCHANGED zmvars

\* the frame loop ends and _save_trajectories fails: nothing is written
SaveFails ==
    /\ main_pc = "videos"
    /\ EndOfVideo

\* the loop over the videos is over; has_trajectories decides what follows
EndOfVideos ==
    /\ main_pc = "videos"
    /\ vp_pc \in {"idle", "done"}
    /\ IF Len(store) > 0
       THEN main_pc' = "matching" /\ pc' = "start"
       ELSE main_pc' = "report" /\ pc' = pc
    /\ UNCHANGED <<store, json_files, loaded, all_tracks, files_to_save, presented>>
    /\ UNCHANGED file_video
    /\ UNCHANGED idvars
    /\ UNCHANGED amvars
    /\ UNCHANGED ddvars
    /\ UNCHANGED envars
    /\ UNCHANGED zmvars

\* gm_info = run_global_matching(), step by step
Matching ==
    /\ main_pc = "matching"
    /\ \/ StartRun
       \/ LoadFile
       \/ SortTracks
       \/ MatchNext
       \/ SaveFiles

\* run_global_matching raises while it writes the files: main() ends there
MatchingRaises ==
    /\ main_pc = "matching"
    /\ pc = "match"
    /\ Len(presented) = Len(all_tracks)
    /\ main_pc' = "aborted"
    /\ UNCHANGED file_video
    /\ UNCHANGED idvars
    /\ UNCHANGED gmvars
    /\ UNCHANGED amvars
    /\ UNCHANGED ddvars
    /\ UNCHANGED envars
    /\ UNCHANGED zmvars

MatchingUnderWay(p) == p \in {"match", "done"}

\* the statement after gm_info = run_global_matching() is reached
MatchingReturned(p) == p = "done"

\* what reanalyze_intrusions_from_trajectories writes: for a person track
\* whose frame is in a zone, intrusion_confirmed at once and intrusion_ended
\* at the flush; nothing when no track is in a zone
ReanalysisEvents ==
    {<<>>} \cup
    { LET fr == store[f].trajectories[1].frames[1]
          ev == RawEvent(file_video[f], TrackUid(1), "z1", Val(fr.t), fr.t_sync,
                         Val(fr.t))
      IN  <<ev, [ev EXCEPT !.event_type = "intrusion_ended"]>> :
        f \in {g \in 1..Len(store) :
                  /\ store[g].readable
                  /\ Len(store[g].trajectories) > 0
                  /\ ~NotPerson(store[g].trajectories[1])
                  /\ Len(store[g].trajectories[1].frames) > 0} }

\* if has_trajectories and zones_file.exists() and events_empty: reanalyze
ReanalyzeIfEmpty ==
    /\ main_pc = "matching"
    /\ MatchingReturned(pc)
    /\ main_pc' = "enrich"
    /\ IF events_file = <<>>
       THEN events_file' \in ReanalysisEvents
       ELSE events_file' = events_file
    /\ UNCHANGED <<trajectories, events_before, enrich_runs>>
    /\ UNCHANGED file_video
    /\ UNCHANGED idvars
    /\ UNCHANGED gmvars
    /\ UNCHANGED amvars
    /\ UNCHANGED ddvars
    /\ UNCHANGED zmvars

\* the smallest and the largest of the t_sync of the frames of a track
SyncTimes(track) ==
    {Val(track.frames[i].t_sync) :
        i \in {j \in 1..Len(track.frames) : ~IsNone(track.frames[j].t_sync)}}

\* _load_trajectory_files: one appearance per track of every readable file
AppsOfStore(files, video_ids) ==
    LET AppsOfFile(f) ==
            IF ~files[f].readable THEN <<>>
            ELSE [k \in 1..Len(files[f].trajectories) |->
                    LET trk == files[f].trajectories[k]
                        ts == SyncTimes(trk)
                    IN  TrackAppearance(
                            video_ids[f], TrackUid(k),
                            IF trk.class_name = NoClass THEN None
                            ELSE Some(trk.class_name),
                            trk.global_id,
                            IF ts = {} THEN None
                            ELSE Some(CHOOSE m \in ts : \A x \in ts : m <= x),
                            IF ts = {} THEN None
                            ELSE Some(CHOOSE m \in ts : \A x \in ts : m >= x))]
        all[f \in 0..Len(files)] ==
            IF f = 0 THEN <<>> ELSE all[f - 1] \o AppsOfFile(f)
    IN  all[Len(files)]

\* enrich_info = enrich_events_with_global_ids(events_file, in_place=True)
Correlate ==
    /\ main_pc = "enrich"
    /\ main_pc' = "report"
    /\ LET apps == AppsOfStore(store, file_video)
       IN  /\ trajectories' = apps
           /\ events_file' = enrich_events_with_global_ids(events_file, apps, dd_cfg)
    /\ events_before' = events_file
    /\ enrich_runs' = enrich_runs + 1
    /\ UNCHANGED file_video
    /\ UNCHANGED idvars
    /\ UNCHANGED gmvars
    /\ UNCHANGED amvars
    /\ UNCHANGED ddvars
    /\ UNCHANGED zmvars

NextMain ==
    \/ ProcessVideo
    \/ VideoFrame
    \/ SaveTrajectories
    \/ SaveFails
    \/ EndOfVideos
    \/ Matching
    \/ MatchingRaises
    \/ ReanalyzeIfEmpty
    \/ Correlate

SpecMain == InitMain /\ [][NextMain]_vars

-----------------------------------------------------------------------------
(* Properties of match_track *)

Called == calls > 0

Before == last.before

Merged == Called /\ last.ret \in Ids(Before)

Created == Called /\ last.ret \notin Ids(Before)

\* the identities of the dict before the call that survive its gating
Survivors ==
    {i \in 1..Len(Before) :
        Survives(camera_network, Before[i], last.timestamp, last.camera_id)}

DistTo(i) == MinDist(last.emb, Before[i])

\* C1: match_track returns the id of an existing identity exactly when some
\* identity that survives gating is at a distance strictly below threshold;
\* otherwise (also at a distance exactly equal to threshold, and when no
\* identity exists or survives) it creates a new identity seeded with this
\* one embedding, whose id differs from every existing id, and returns it.
C1_MatchIffBelowThreshold ==
    Called =>
        /\ Merged <=> (\E i \in Survivors : DistTo(i) < threshold)
        /\ Created =>
             /\ Len(global_tracks) = Len(Before) + 1
             /\ \A i \in 1..Len(Before) : global_tracks[i] = Before[i]
             /\ global_tracks[Len(global_tracks)] =
                    [gid |-> last.ret, embeddings |-> <<last.emb>>,
                     last_seen |-> last.timestamp, last_camera |-> last.camera_id]

\* a call whose smallest distance is exactly the threshold created an identity
C1_Witness ==
    /\ Created
    /\ \E i \in Survivors : DistTo(i) = threshold
    /\ \A i \in Survivors : DistTo(i) >= threshold

C3_IdsAreOneToN ==
    /\ Ids(global_tracks) = 1..Len(global_tracks)
    /\ next_global_id = Len(global_tracks) + 1
    /\ calls = 1 => last.ret = 1
    /\ Created => last.ret = Len(Before) + 1
    /\ Called =>
         /\ Len(global_tracks) >= Len(Before)
         /\ \A i \in 1..Len(Before) : global_tracks[i].gid = Before[i].gid

\* three calls have created at least two identities
C3_Witness == calls >= 3 /\ Len(global_tracks) >= 2

\* |timestamp - last_seen|, unknown when either is
AbsDt(timestamp, last_seen) ==
    IF IsNone(timestamp) \/ IsNone(last_seen) THEN None
    ELSE IF Val(timestamp) >= Val(last_seen)
         THEN Some(Val(timestamp) - Val(last_seen))
         ELSE Some(Val(last_seen) - Val(timestamp))

\* the transition from the identity at position i to the call's camera is
\* disallowed by the configured network
Disallowed(i) ==
    /\ ~IsNone(camera_network)
    /\ ~allowed_transition(Val(camera_network), Before[i].last_camera,
                           last.camera_id,
                           AbsDt(last.timestamp, Before[i].last_seen))

\* C4: with a network configured, the call never merges into an identity
\* whose transition to the call's camera is disallowed for
\* dt = |timestamp - last_seen|, however small its distance.
C4_NeverMergesIntoGated ==
    (Merged /\ ~IsNone(camera_network)) => ~Disallowed(KeyIndex(Before, last.ret))

\* an identity holding the very embedding of the call, last seen after the
\* call's timestamp, was disallowed
C4_Witness ==
    /\ Called
    /\ \E i \in 1..Len(Before) :
          /\ Disallowed(i)
          /\ DistTo(i) = 0
          /\ ~IsNone(last.timestamp) /\ ~IsNone(Before[i].last_seen)
          /\ Val(last.timestamp) < Val(Before[i].last_seen)

\* the last n elements of a sequence
LastN(s, n) == IF Len(s) <= n THEN s ELSE SubSeq(s, Len(s) - n + 1, Len(s))

\* C5: every buffer holds between 1 and 10 embeddings, namely the most
\* recently merged ones in arrival order.
C5_BufferIsRecentWindow ==
    /\ Len(hist) = Len(global_tracks)
    /\ \A i \in 1..Len(global_tracks) :
          /\ Len(global_tracks[i].embeddings) >= 1
          /\ Len(global_tracks[i].embeddings) <= BufCap
          /\ hist[i].gid = global_tracks[i].gid
          /\ global_tracks[i].embeddings = LastN(hist[i].embeddings, BufCap)

\* an identity was given more than 10 embeddings, not all the same
C5_Witness ==
    \E i \in 1..Len(global_tracks) :
        /\ Len(hist[i].embeddings) > BufCap
        /\ hist[i].embeddings[1] # hist[i].embeddings[Len(hist[i].embeddings)]

\* C6: among survivors at the same minimal distance below threshold the one
\* with the smallest global_id is merged into; the dict is iterated in
\* ascending global_id.
C6_TieGoesToSmallestId ==
    /\ \A i \in 1..Len(global_tracks) : \A j \in 1..Len(global_tracks) :
          i < j => global_tracks[i].gid < global_tracks[j].gid
    /\ Merged =>
          \A j \in Survivors :
              DistTo(j) = DistTo(KeyIndex(Before, last.ret))
                  => last.ret <= Before[j].gid

\* two survivors were at the same minimal distance and the call merged
C6_Witness ==
    /\ Merged
    /\ \E i \in Survivors : \E j \in Survivors :
          /\ i # j
          /\ DistTo(i) = DistTo(j)
          /\ \A k \in Survivors : DistTo(i) <= DistTo(k)

\* C7 as stated: when the first embedding of a person created an identity and
\* each later one was below threshold from some embedding in the buffer of
\* that identity, all of them were given that identity's id.
C7_ChainKeepsOneId ==
    (chain.created /\ chain.premise) => chain.same

\* C7 as amended: the same, provided that for each later embedding the
\* identity survived gating and no other survivor was closer, or as close
\* with a smaller id.
C7_ChainKeepsOneIdWhenNearest ==
    (chain.created /\ chain.strict) => chain.same

\* a person's three embeddings were given one id while another identity existed
C7_Witness ==
    /\ chain.created /\ chain.strict /\ chain.n >= 2
    /\ Len(global_tracks) >= 2
    /\ ~IsNone(camera_network)

------------------------------------------------------------------------\* C36: a call changes one identity only: when it returns the id of an
\* existing identity, that identity gets the embedding at the end of its
\* buffer and the timestamp and camera of the call, and every other identity
\* is as before; otherwise one identity is added with the embedding, the
\* timestamp and the camera of the call, and every other identity is as before.
C36_OneIdentityChanges ==
    calls > 0 =>
        LET b == last.before
        IN  IF last.ret \in Ids(b)
            THEN /\ Len(global_tracks) = Len(b)
                 /\ \A i \in 1..Len(b) :
                       IF b[i].gid # last.ret THEN global_tracks[i] = b[i]
                       ELSE /\ global_tracks[i].gid = last.ret
                            /\ global_tracks[i].last_seen = last.timestamp
                            /\ global_tracks[i].last_camera = last.camera_id
                            /\ global_tracks[i].embeddings
                                   \in {Append(b[i].embeddings, last.emb),
                                        Tail(Append(b[i].embeddings, last.emb))}
            ELSE /\ Len(global_tracks) = Len(b) + 1
                 /\ \A i \in 1..Len(b) : global_tracks[i] = b[i]
                 /\ global_tracks[Len(b) + 1] =
                       [gid |-> last.ret, embeddings |-> <<last.emb>>,
                        last_seen |-> last.timestamp,
                        last_camera |-> last.camera_id]

\* a call that merged into one of two identities, the other one seen at
\* another time than the time of the call
C36_Witness ==
    /\ calls > 0
    /\ last.ret \in Ids(last.before)
    /\ \E i \in 1..Len(last.before) :
          /\ last.before[i].gid # last.ret
          /\ last.before[i].last_seen # last.timestamp

-----
(* Properties of allowed_transition *)

Net == Val(camera_network)

\* C9: a network with zero edges allows every transition, whatever the
\* cameras, dt, allow_same_camera_match and default_max_gap_s.
C9_OpenNetworkAllowsAll ==
    (query.asked /\ Len(Net.edges) = 0) => query.result

\* the edge e goes from prev to new and admits a known dt
Admits(e, prev, new, dt) ==
    /\ e.src = prev
    /\ e.dst = new
    /\ \/ e.min_s = None /\ e.max_s = None
       \/ /\ (e.min_s = None => 0 <= dt)
          /\ (e.min_s # None => e.min_s[1] <= dt)
          /\ (e.max_s # None => dt <= e.max_s[1])

KnownQuery ==
    /\ query.asked
    /\ Len(Net.edges) > 0
    /\ query.prev # NoCamera /\ query.new # NoCamera
    /\ query.prev # query.new
    /\ query.dt # None
    /\ query.dt[1] >= 0

\* C10: in a network with edges, for known different cameras and a known
\* dt >= 0, the result is false when dt exceeds default_max_gap_s, and
\* otherwise true exactly when some edge prev->new has no window or has dt
\* within its window.
C10_EdgeSearch ==
    KnownQuery =>
        IF Net.default_max_gap_s # None /\ query.dt[1] > Net.default_max_gap_s[1]
        THEN query.result = FALSE
        ELSE query.result =
                (\E i \in 1..Len(Net.edges) :
                    Admits(Net.edges[i], query.prev, query.new, query.dt[1]))

\* a time-agnostic edge prev->new exists and dt exceeds the global gap
C10_Witness ==
    /\ KnownQuery
    /\ ~query.result
    /\ \E i \in 1..Len(Net.edges) :
          /\ Net.edges[i].src = query.prev /\ Net.edges[i].dst = query.new
          /\ Net.edges[i].min_s = None /\ Net.edges[i].max_s = None

\* C11: in a network with edges, for two known different cameras and a known
\* dt, allowed_transition(prev, new, dt) = allowed_transition(prev, new, -dt):
\* a time-windowed edge is evaluated on the absolute value of dt.  Stated
\* for the networks without default_max_gap_s, where only the edges decide.
C11_SymmetricInDt ==
    ( /\ query.asked
      /\ Len(Net.edges) > 0
      /\ Net.default_max_gap_s = None
      /\ query.prev # NoCamera /\ query.new # NoCamera
      /\ query.prev # query.new
      /\ query.dt # None )
    => query.result = allowed_transition(Net, query.prev, query.new,
                                         Some(0 - query.dt[1]))

-----------------------------------------------------------------------------
(* Properties of run_global_matching *)

\* the tracks of the store, as (file, position) pairs
StoredTracks ==
    {<<f, i>> : f \in 1..Len(store), i \in 1..MaxTracks + 1} \cap
    UNION {{<<f, i>> : i \in 1..Len(store[f].trajectories)} : f \in 1..Len(store)}

TrackAt(ft) == store[ft[1]].trajectories[ft[2]]

WasPresented(ft) ==
    \E k \in 1..Len(presented) :
        presented[k].file_path = ft[1] /\ presented[k].pos = ft[2]

\* C8, first half: a track without embedding is never presented to the
\* matcher and its global_id stays null in the store.
C8_NoEmbeddingNeverMatched ==
    \A ft \in StoredTracks :
        ~HasEmbeddings(TrackAt(ft)) =>
            /\ ~WasPresented(ft)
            /\ TrackAt(ft).global_id = None

\* C8: a track without embedding is never presented to the matcher and keeps
\* a null global_id, and at the end of the run every person track (a track
\* of the store's data model, with at least one frame) that has at least one
\* embedding has a non-null global_id in the store.
C8_EmbeddedPersonsGetGlobalId ==
    /\ C8_NoEmbeddingNeverMatched
    /\ pc = "done" =>
          \A ft \in StoredTracks :
              (/\ HasEmbeddings(TrackAt(ft))
               /\ ~NotPerson(TrackAt(ft))
               /\ Len(TrackAt(ft).frames) > 0)
                  => TrackAt(ft).global_id # None

------------------------------------------------------------------------\* a track the matching has to take: a person, or a track without class,
\* with an embedding and a frame, in a file that can be read
WellFormed(ft) ==
    /\ store[ft[1]].readable
    /\ HasEmbeddings(TrackAt(ft))
    /\ ~NotPerson(TrackAt(ft))
    /\ Len(TrackAt(ft).frames) > 0

\* C33: whatever file or track of the store fails, the run ends and every
\* well-formed track with embeddings has been matched and has a global_id.
C33_FailuresAreIsolated ==
    pc = "done" =>
        \A ft \in StoredTracks :
            WellFormed(ft) => WasPresented(ft) /\ TrackAt(ft).global_id # None

\* C34: the timestamps of successive match_track calls never decrease.
C34_TimestampsNeverDecrease ==
    [][(calls > 0 /\ calls' = calls + 1) =>
          Val(last'.timestamp) >= Val(last.timestamp)]_vars

\* two tracks of one file presented in the reverse of their order in the file
C34_Witness ==
    \E i \in 1..Len(presented), j \in 1..Len(presented) :
        /\ i < j
        /\ presented[i].file_path = presented[j].file_path
        /\ presented[i].pos > presented[j].pos

\* the identities of the call nearest to its embedding
Nearest(tracks, emb) ==
    {i \in 1..Len(tracks) :
        \A j \in 1..Len(tracks) : MinDist(emb, tracks[i]) <= MinDist(emb, tracks[j])}

\* C39: the matcher of run_global_matching has no network, its calls carry
\* no camera, every last_camera stays null, and a call returns an identity
\* nearest to the embedding among all the identities when that distance is
\* below the threshold, a new identity otherwise.
C39_NoGatingInGlobalMatching ==
    pc \in {"match", "done"} =>
        /\ IsNone(camera_network)
        /\ \A i \in 1..Len(global_tracks) : global_tracks[i].last_camera = NoCamera
        /\ calls > 0 =>
              /\ last.camera_id = NoCamera
              /\ LET b == last.before
                     near == {i \in Nearest(b, last.emb) :
                                 MinDist(last.emb, b[i]) < threshold}
                 IN  IF near = {} THEN last.ret \notin Ids(b)
                     ELSE \E i \in near : b[i].gid = last.ret

\* a call, later than the last sighting of an identity, that returned it
C39_Witness ==
    /\ pc \in {"match", "done"}
    /\ calls > 1
    /\ \E i \in 1..Len(last.before) :
          /\ last.before[i].gid = last.ret
          /\ Val(last.before[i].last_seen) < Val(last.timestamp)

-----
(* Properties of AlertManager *)

Updated == upd.n > 0

\* the entries of the updated track before and after the latest update
BeforeEntries == EntriesOf(upd.before, upd.track_id)

AfterEntries == EntriesOf(active_intrusions, upd.track_id)

\* the events the latest update logged for one zone
EmittedFor(zone_id) == SelectSeq(upd.emitted, LAMBDA e : e.zone_id = zone_id)

\* the zone is in the zone set of the latest update and was not tracked
NewlyEntered(zone_id) ==
    /\ Updated
    /\ InList(upd.zone_ids, zone_id)
    /\ ZoneIndex(BeforeEntries, zone_id) = 0

\* the zone was tracked and is absent from the zone set of the latest update
JustLeft(zone_id) ==
    /\ Updated
    /\ ZoneIndex(BeforeEntries, zone_id) # 0
    /\ ~InList(upd.zone_ids, zone_id)

\* C12: with min_duration <= 0, an update whose zone set contains a zone not
\* yet tracked for the track logs, in that same update, one
\* intrusion_confirmed of duration 0 for (track, zone) and leaves the entry
\* confirmed.
C12_ImmediateConfirmation ==
    min_duration <= 0 =>
        \A z \in Zones :
            NewlyEntered(z) =>
                /\ EmittedFor(z) = <<Event("intrusion_confirmed", upd.track_id, z,
                                           0, upd.frame_time)>>
                /\ ZoneIndex(AfterEntries, z) # 0
                /\ AfterEntries[ZoneIndex(AfterEntries, z)].confirmed
                /\ AfterEntries[ZoneIndex(AfterEntries, z)].start_time = upd.frame_time

C12_Witness ==
    /\ min_duration <= 0
    /\ NewlyEntered("z2")
    /\ ZoneIndex(BeforeEntries, "z1") # 0
    /\ Len(EmittedFor("z2")) = 1

\* C13: with min_duration > 0, a stay whose every update containing the
\* zone had current_time - start_time < min_duration logs no event at all,
\* and its entry is gone once the track has left the zone.
C13_ShortStayIsSilent ==
    min_duration > 0 =>
        \A p \in TrackIds \X Zones :
            (stay[p].started /\ ~stay[p].reached) =>
                /\ stay[p].events = 0
                /\ ~stay[p].open =>
                       ZoneIndex(EntriesOf(active_intrusions, p[1]), p[2]) = 0

\* a stay of two updates below min_duration, and the track has left
C13_Witness ==
    /\ min_duration > 0
    /\ \E p \in TrackIds \X Zones :
          /\ stay[p].started /\ ~stay[p].reached /\ ~stay[p].open
          /\ stay[p].updates >= 2
          /\ JustLeft(p[2]) /\ upd.track_id = p[1]

\* C14: on an update whose zone set no longer contains a tracked zone,
\* intrusion_ended is logged exactly when the entry was confirmed, with
\* duration = time of this update - start_time, and the entry is removed
\* whether it was confirmed or not.
C14_EndedIffConfirmed ==
    \A z \in Zones :
        JustLeft(z) =>
            LET b == BeforeEntries[ZoneIndex(BeforeEntries, z)]
            IN  /\ EmittedFor(z) =
                       IF b.confirmed
                       THEN <<Event("intrusion_ended", upd.track_id, z,
                                    upd.frame_time - b.start_time, upd.frame_time)>>
                       ELSE <<>>
                /\ ZoneIndex(AfterEntries, z) = 0

\* a dwell-confirmed entry ends with a positive duration
C14_Witness ==
    /\ min_duration > 0
    /\ \E z \in Zones :
          /\ JustLeft(z)
          /\ BeforeEntries[ZoneIndex(BeforeEntries, z)].confirmed
          /\ Len(EmittedFor(z)) = 1
          /\ EmittedFor(z)[1].duration >= min_duration

\* the entry of one zone, as a list of at most one entry
EntryOpt(entries, zone_id) == SelectSeq(entries, LAMBDA e : e.zone_id = zone_id)

\* what one (track, zone) state machine does on an update, given only its
\* own entry, whether its zone is in the zone set, the time and min_duration
OneZone(b, track_id, zone_id, present, t, md) ==
    IF present
    THEN IF b = <<>>
         THEN IF md <= 0
              THEN [entry |-> <<Entry(zone_id, t, TRUE)>>,
                    events |-> <<Event("intrusion_confirmed", track_id, zone_id,
                                       0, t)>>]
              ELSE [entry |-> <<Entry(zone_id, t, FALSE)>>, events |-> <<>>]
         ELSE IF ~b[1].confirmed /\ t - b[1].start_time >= md
              THEN [entry |-> <<Entry(zone_id, b[1].start_time, TRUE)>>,
                    events |-> <<Event("intrusion_confirmed", track_id, zone_id,
                                       t - b[1].start_time, t)>>]
              ELSE [entry |-> b, events |-> <<>>]
    ELSE [entry |-> <<>>,
          events |-> IF b # <<>> /\ b[1].confirmed
                     THEN <<Event("intrusion_ended", track_id, zone_id,
                                  t - b[1].start_time, t)>>
                     ELSE <<>>]

\* C16: one independent state machine per (track_id, zone_id): an update
\* of one track leaves the entries of every other track unchanged and logs
\* events of that track only, and what happens to the entry of one zone
\* (creation, confirmation, ending) is determined by that entry alone.
C16_IndependentPerTrackAndZone ==
    Updated =>
        /\ \A t \in TrackIds \ {upd.track_id} :
              /\ t \in DOMAIN active_intrusions <=> t \in DOMAIN upd.before
              /\ EntriesOf(active_intrusions, t) = EntriesOf(upd.before, t)
        /\ \A i \in 1..Len(upd.emitted) : upd.emitted[i].track_id = upd.track_id
        /\ \A z \in Zones :
              LET r == OneZone(EntryOpt(BeforeEntries, z), upd.track_id, z,
                               InList(upd.zone_ids, z), upd.frame_time,
                               min_duration)
              IN  /\ EntryOpt(AfterEntries, z) = r.entry
                  /\ EmittedFor(z) = r.events

\* a track in two zones leaves one of them while it stays in the other,
\* and another track holds an entry
C16_Witness ==
    /\ Updated
    /\ Len(BeforeEntries) = 2
    /\ Len(AfterEntries) = 1
    /\ Len(upd.emitted) = 1
    /\ \E t \in TrackIds \ {upd.track_id} :
          Len(EntriesOf(active_intrusions, t)) > 0

\* the (zone_id, duration) pairs of a list of alerts
AlertSet(alerts) == {alerts[i] : i \in 1..Len(alerts)}

------------------------------------------------------------------------\* C35: a stay logs intrusion_confirmed at most once. With min_duration
\* > 0 the entry of an open stay is confirmed exactly when some update of the
\* stay had current_time - start_time >= min_duration, and an update
\* containing a tracked zone logs intrusion_confirmed, with that difference
\* as duration, exactly when the entry is not yet confirmed and the
\* difference is >= min_duration: so the event is logged at the first such
\* update and at no later one.
C35_ConfirmedOncePerStay ==
    /\ \A p \in TrackIds \X Zones :
          stay[p].started =>
              IF stay[p].open
              THEN /\ stay[p].events = (IF stay[p].reached THEN 1 ELSE 0)
                   /\ LET es == EntriesOf(active_intrusions, p[1])
                      IN  /\ ZoneIndex(es, p[2]) # 0
                          /\ es[ZoneIndex(es, p[2])].confirmed = stay[p].reached
              ELSE stay[p].events = (IF stay[p].reached THEN 2 ELSE 0)
    /\ (Updated /\ min_duration > 0) =>
          \A z \in Zones :
              (InList(upd.zone_ids, z) /\ ZoneIndex(BeforeEntries, z) # 0) =>
                  LET b == BeforeEntries[ZoneIndex(BeforeEntries, z)]
                      d == upd.frame_time - b.start_time
                  IN  EmittedFor(z) =
                          IF ~b.confirmed /\ d >= min_duration
                          THEN <<Event("intrusion_confirmed", upd.track_id, z,
                                       d, upd.frame_time)>>
                          ELSE <<>>

\* an update, later than the one that confirmed the entry, that contains
\* the zone and logs nothing for it
C35_Witness ==
    /\ Updated /\ min_duration > 0
    /\ \E z \in Zones :
          /\ InList(upd.zone_ids, z)
          /\ ZoneIndex(BeforeEntries, z) # 0
          /\ BeforeEntries[ZoneIndex(BeforeEntries, z)].confirmed
          /\ upd.frame_time - BeforeEntries[ZoneIndex(BeforeEntries, z)].start_time
                 > min_duration
          /\ EmittedFor(z) = <<>>
          /\ stay[<<upd.track_id, z>>].events = 1

\* the events logged so far for one (track_id, zone_id)
EventsOf(track_id, zone_id) ==
    SelectSeq(events, LAMBDA e : e.track_id = track_id /\ e.zone_id = zone_id)

\* C40: the events logged for one (track_id, zone_id) are, in order,
\* intrusion_confirmed, intrusion_ended, intrusion_confirmed, ..., and an
\* update whose zone set contains a zone that is not tracked creates its
\* entry with start_time = the time of the update.
C40_ConfirmedAndEndedAlternate ==
    /\ \A p \in TrackIds \X Zones :
          \A i \in 1..Len(EventsOf(p[1], p[2])) :
              EventsOf(p[1], p[2])[i].event_type =
                  (IF i % 2 = 1 THEN "intrusion_confirmed" ELSE "intrusion_ended")
    /\ \A z \in Zones :
          NewlyEntered(z) =>
              /\ ZoneIndex(AfterEntries, z) # 0
              /\ AfterEntries[ZoneIndex(AfterEntries, z)].start_time = upd.frame_time

\* a track back in a zone it had left: confirmed, ended, and a new entry
\* later than the first
C40_Witness ==
    \E z \in Zones :
        /\ NewlyEntered(z)
        /\ Len(EventsOf(upd.track_id, z)) >= 2
        /\ EventsOf(upd.track_id, z)[2].event_type = "intrusion_ended"
        /\ AfterEntries[ZoneIndex(AfterEntries, z)].start_time
               > EventsOf(upd.track_id, z)[1].t

-----
(* Properties of the callers of AlertManager.update *)

\* C15: every caller ends each track with an update carrying an empty
\* zone set, so every intrusion_confirmed is followed by an intrusion_ended
\* of the same (track, zone); stated at the return of VideoProcessor.process.
C15_ConfirmedIsEnded ==
    vp_pc = "done" =>
        \A i \in 1..Len(events) :
            events[i].event_type = "intrusion_confirmed" =>
                \E j \in (i + 1)..Len(events) :
                    /\ events[j].event_type = "intrusion_ended"
                    /\ events[j].track_id = events[i].track_id
                    /\ events[j].zone_id = events[i].zone_id

-----------------------------------------------------------------------------
(* Properties of the deduplication *)

Deduped == ~IsNone(dd_out)

Out == Val(dd_out)

\* the two events are duplicates: same global_id, same event_type, same
\* normalized zone name or else same zone_id, cameras identical or adjacent
\* in a network that declares edges, t_sync at most the window apart
Duplicates(a, b) ==
    /\ ~IsNone(a.global_id) /\ a.global_id = b.global_id
    /\ a.event_type = b.event_type
    /\ zone_key(dd_cfg.zones, a) = zone_key(dd_cfg.zones, b)
    /\ \/ a.video_id = b.video_id
       \/ /\ ~IsNone(dd_cfg.camera_network)
          /\ Len(Val(dd_cfg.camera_network).edges) > 0
          /\ \E i \in 1..Len(Val(dd_cfg.camera_network).edges) :
                LET e == Val(dd_cfg.camera_network).edges[i]
                IN  \/ e.src = a.video_id /\ e.dst = b.video_id
                    \/ e.src = b.video_id /\ e.dst = a.video_id
    /\ ~IsNone(a.t_sync) /\ ~IsNone(b.t_sync)
    /\ AbsDiff(Val(a.t_sync), Val(b.t_sync)) <= dd_cfg.time_window_s

\* C18: after the deduplication no two distinct events of the output are
\* duplicates of each other.
C18_NoDuplicatesInOutput ==
    Deduped =>
        \A i \in 1..Len(Out), j \in 1..Len(Out) :
            i # j => ~Duplicates(Out[i], Out[j])

\* what identifies an event in a merged_from entry
Ident(e) ==
    [video_id |-> e.video_id, track_id |-> e.track_id, zone_id |-> e.zone_id,
     t_sync |-> Val(e.t_sync), frame_id |-> e.frame_id]

\* the merged_from entries of all the events of the output
Absorbed ==
    UNION {{Out[i].merged_from[k] : k \in 1..Len(Out[i].merged_from)} :
              i \in 1..Len(Out)}

\* the events of the input with a t_sync
Timed(evs) == {evs[i] : i \in {j \in 1..Len(evs) : ~IsNone(evs[j].t_sync)}}

\* C19: a merge keeps the event with the earlier t_sync, whose t_sync stays
\* the minimum of its group; the absorbed event leaves one merged_from entry
\* with its (camera, track_id, zone_id, t_sync, frame_id) and is absent from
\* the output; two duplicates alone give one event with one merged_from
\* entry, and two events further apart than the window give two events.
C19_MergeKeepsEarliest ==
    Deduped =>
        /\ \A i \in 1..Len(Out) :
              \* the representative is an event of the input, t_sync included
              /\ [Out[i] EXCEPT !.merged_from = <<>>] \in
                     {dd_in[k] : k \in 1..Len(dd_in)}
              /\ \A k \in 1..Len(Out[i].merged_from) :
                    LET m == Out[i].merged_from[k]
                    IN  /\ Val(Out[i].t_sync) <= m.t_sync
                        /\ \E e \in Timed(dd_in) :
                              Ident(e) = m /\ Duplicates(Out[i], e)
                        /\ \A j \in 1..Len(Out) :
                              ~IsNone(Out[j].t_sync) => Ident(Out[j]) # m
        \* every event of the input is kept or absorbed, once
        /\ Len(dd_in) = Len(Out) + Cardinality(Absorbed)
        /\ Len(dd_in) = 2 =>
              IF Duplicates(dd_in[1], dd_in[2])
              THEN Len(Out) = 1 /\ Len(Out[1].merged_from) = 1
              ELSE /\ Len(Out) = 2
                   /\ Out[1].merged_from = <<>> /\ Out[2].merged_from = <<>>

\* two events on adjacent cameras, one second apart, became one event
C19_Witness ==
    /\ Deduped
    /\ Len(dd_in) = 2
    /\ Len(Out) = 1
    /\ Len(Out[1].merged_from) = 1
    /\ Out[1].merged_from[1].video_id # Out[1].video_id
    /\ Out[1].merged_from[1].t_sync = Val(Out[1].t_sync) + 1

\* the events of a list, whatever their order
AsSet(evs) == {evs[i] : i \in 1..Len(evs)}

\* C20: two orderings of the same events give the same output events, with
\* the same representatives and the same merged_from contents.
C20_OrderIndependent ==
    (~IsNone(dd_out) /\ ~IsNone(dd_out2)) =>
        AsSet(Val(dd_out)) = AsSet(Val(dd_out2))

------------------------------------------------------------------------\* the event lacks a field the deduplication needs
Lacking(e) ==
    \/ IsNone(e.global_id) \/ e.event_type = Absent \/ IsNone(e.t_sync)
    \/ e.video_id = Absent \/ e.zone_id = Absent

\* the event of the output is the input event e, up to the fields a merge
\* updates
IsEvent(o, e) ==
    /\ o.event_type = e.event_type /\ o.video_id = e.video_id
    /\ o.track_id = e.track_id /\ o.zone_id = e.zone_id
    /\ o.global_id = e.global_id /\ o.frame_id = e.frame_id

\* the places of the output where the input event e is: as an event, or as
\* a merged_from entry
PlacesOf(e) ==
    {<<i, 0>> : i \in {j \in 1..Len(Out) : IsEvent(Out[j], e)}}
    \cup {ik \in (1..Len(Out)) \X (1..Len(dd_in)) :
             /\ ik[2] <= Len(Out[ik[1]].merged_from)
             /\ ~IsNone(e.t_sync)
             /\ Out[ik[1]].merged_from[ik[2]] = Ident(e)}

\* the number of merged_from entries of the first n events of the output
RECURSIVE EntriesUpTo(_)
EntriesUpTo(n) == IF n = 0 THEN 0 ELSE EntriesUpTo(n - 1) + Len(Out[n].merged_from)

\* C37: every input event is at exactly one place of the output, as an
\* event or as a merged_from entry; the events of the output and their
\* merged_from entries are as many as the input events; an event lacking
\* global_id, event_type, t_sync, camera or zone is in the output as it was
\* and nothing is merged into it.
C37_NoEventLost ==
    Deduped =>
        /\ \A n \in 1..Len(dd_in) : Cardinality(PlacesOf(dd_in[n])) = 1
        /\ Len(Out) + EntriesUpTo(Len(Out)) = Len(dd_in)
        /\ \A n \in 1..Len(dd_in) :
              Lacking(dd_in[n]) => \E i \in 1..Len(Out) : Out[i] = dd_in[n]

\* an event merged into another one next to an event that lacks its camera,
\* of the same global_id and zone and at the same time, which is kept
C37_Witness ==
    /\ Deduped
    /\ Len(dd_in) = 3 /\ Len(Out) = 2
    /\ \E i \in 1..Len(Out) :
          /\ Out[i].video_id = Absent
          /\ \E j \in 1..Len(Out) :
                /\ Len(Out[j].merged_from) = 1
                /\ Out[j].global_id = Out[i].global_id

\* the deduplication ran without a network or with an open network
NoEdges ==
    \/ IsNone(dd_cfg.camera_network)
    \/ is_open(Val(dd_cfg.camera_network))

\* C38: without a camera network, or with an open one, every merged_from
\* entry of the output is of the camera of the event it is merged into.
C38_OnlySameCameraMerges ==
    (Deduped /\ NoEdges) =>
        \A i \in 1..Len(Out) :
            \A k \in 1..Len(Out[i].merged_from) :
                Out[i].merged_from[k].video_id = Out[i].video_id

\* without edges, two events of one camera are merged while an event of
\* another camera, same global_id and zone, in the window, is kept
C38_Witness ==
    /\ Deduped /\ NoEdges
    /\ \E i \in 1..Len(Out), j \in 1..Len(Out) :
          /\ Len(Out[i].merged_from) = 1
          /\ Out[j].video_id \notin {Out[i].video_id, Absent}
          /\ Out[j].global_id = Out[i].global_id
          /\ ~IsNone(Out[j].t_sync)
          /\ zone_key(dd_cfg.zones, Out[j]) = zone_key(dd_cfg.zones, Out[i])
          /\ AbsDiff(Val(Out[j].t_sync), Val(Out[i].t_sync)) <= dd_cfg.time_window_s

-----
(* Properties of enrich_events_with_global_ids *)

\* at least one enrichment run has rewritten the events file
Enriched == enrich_runs >= 1

OutIdx == 1..Len(events_file)

\* the network of the run is configured: it has at least one edge
Restricted == ~is_open(Val(dd_cfg.camera_network))

\* the stored track of an event, when it has one with a known global_id
OwnTrack(e) ==
    {a \in {trajectories[i] : i \in 1..Len(trajectories)} :
        a.video_id = e.video_id /\ a.track_id = e.track_id /\ ~IsNone(a.global_id)}

\* the tracks with the global_id of e on another camera
OtherCameraTracks(e) ==
    {a \in {trajectories[i] : i \in 1..Len(trajectories)} :
        /\ \E own \in OwnTrack(e) : a.global_id = own.global_id
        /\ a.video_id # e.video_id}

EndedBefore(e, pool) ==
    {a \in pool : ~IsNone(a.t_end_sync) /\ Val(a.t_end_sync) < Val(e.t_sync)}

StartedAfter(e, pool) ==
    {a \in pool : ~IsNone(a.t_start_sync) /\ Val(a.t_start_sync) > Val(e.t_sync)}

AsDict(a) ==
    [video_id |-> a.video_id, track_id |-> a.track_id,
     t_start_sync |-> a.t_start_sync, t_end_sync |-> a.t_end_sync]

\* prev is the latest-ending of the tracks before, null when there is none
IsLatest(prev, before) ==
    IF before = {} THEN IsNone(prev)
    ELSE \E a \in before :
            /\ prev = Some(AsDict(a))
            /\ \A b \in before : Val(b.t_end_sync) <= Val(a.t_end_sync)

\* next is the earliest-starting of the tracks after, null when there is none
IsEarliest(next, after) ==
    IF after = {} THEN IsNone(next)
    ELSE \E a \in after :
            /\ next = Some(AsDict(a))
            /\ \A b \in after : Val(b.t_start_sync) >= Val(a.t_start_sync)

\* the events of the output that the sentence on prev_camera speaks of
Located == {i \in OutIdx : /\ OwnTrack(events_file[i]) # {}
                           /\ ~IsNone(events_file[i].t_sync)}

\* C21: a second run on the stream the first run produced keeps every
\* event's global_id, prev_camera and next_camera, merges no further
\* events and adds no merged_from entry.
C21_SecondRunChangesNothing ==
    enrich_runs = 2 =>
        /\ Len(events_file) = Len(events_before)
        /\ \A i \in OutIdx :
              /\ events_file[i].global_id = events_before[i].global_id
              /\ events_file[i].prev_camera = events_before[i].prev_camera
              /\ events_file[i].next_camera = events_before[i].next_camera
              /\ events_file[i].merged_from = events_before[i].merged_from

\* a second run on a stream in which the first run merged an event and
\* linked the remaining one to the cameras before and after
C21_Witness ==
    /\ enrich_runs = 2
    /\ \E i \in OutIdx : /\ events_file[i].merged_from # <<>>
                         /\ ~IsNone(events_file[i].prev_camera)
                         /\ ~IsNone(events_file[i].next_camera)

\* C22 as stated: prev_camera is the latest-ending track before the event
\* among all tracks of the global_id on other cameras, next_camera the
\* earliest-starting one after it.
C22_ClosestOfAllOtherCameras ==
    Enriched =>
        \A i \in Located :
            LET e == events_file[i] IN
            /\ IsLatest(e.prev_camera, EndedBefore(e, OtherCameraTracks(e)))
            /\ IsEarliest(e.next_camera, StartedAfter(e, OtherCameraTracks(e)))

\* the tracks from which prev_camera is taken
PrevAdmitted(e) ==
    {a \in OtherCameraTracks(e) :
        Restricted => a.video_id \in neighbors_in(Val(dd_cfg.camera_network),
                                                  e.video_id)}

\* the tracks from which next_camera is taken
NextAdmitted(e) ==
    {a \in OtherCameraTracks(e) :
        Restricted => a.video_id \in neighbors_out(Val(dd_cfg.camera_network),
                                                   e.video_id)}

\* C22: prev_camera is the latest-ending track before the event among the
\* tracks of the global_id on the other cameras the network admits (all of
\* them when it is open, neighbors_in otherwise), next_camera the
\* earliest-starting one after it among those of neighbors_out; each is
\* null when there is none, and neither is on the event's own camera.
C22_ClosestOfAdmittedCameras ==
    Enriched =>
        \A i \in Located :
            LET e == events_file[i] IN
            /\ IsLatest(e.prev_camera, EndedBefore(e, PrevAdmitted(e)))
            /\ IsEarliest(e.next_camera, StartedAfter(e, NextAdmitted(e)))
            /\ ~IsNone(e.prev_camera) => Val(e.prev_camera).video_id # e.video_id
            /\ ~IsNone(e.next_camera) => Val(e.next_camera).video_id # e.video_id

\* an event with two tracks before it, the later-ending one chosen, and a
\* track of another camera after it that the network does not admit
C22_Witness ==
    /\ Enriched
    /\ Restricted
    /\ \E i \in Located :
          LET e == events_file[i] IN
          /\ \E a, b \in EndedBefore(e, PrevAdmitted(e)) :
                /\ Val(a.t_end_sync) < Val(b.t_end_sync)
                /\ e.prev_camera = Some(AsDict(b))
          /\ StartedAfter(e, OtherCameraTracks(e)) # {}
          /\ StartedAfter(e, NextAdmitted(e)) = {}
          /\ IsNone(e.next_camera)

CreationFields(e) ==
    <<e.event_type, e.video_id, e.track_id, e.zone_id, e.frame_id, e.t, e.t_sync>>

\* C24: every event of the output carries the event_type, video_id,
\* track_id, zone_id, frame_id, t and t_sync of an event of the input.
C24_CreatedFieldsKept ==
    Enriched =>
        \A i \in OutIdx :
            \E j \in 1..Len(events_before) :
                CreationFields(events_file[i]) = CreationFields(events_before[j])

\* a run that enriched an event and merged another one into it
C24_Witness ==
    /\ enrich_runs = 1
    /\ \E i \in OutIdx :
          /\ events_file[i].merged_from # <<>>
          /\ events_file[i].enriched
          /\ ~IsNone(events_file[i].global_id)
          /\ ~IsNone(events_file[i].class_name)

-----------------------------------------------------------------------------
(* Properties of ZoneManager *)

\* the zones of a table that are active
ActiveZones(table) == {z \in DOMAIN table : table[z].active}

\* the zones some query on the table returns
Returned(table) ==
    UNION ({check_point_all_zones(table, p[1], p[2], None) : p \in QueryPoints}
           \cup {check_bbox_all_zones(table, b, None) : b \in QueryBoxes})

\* the polygons create_zone has to refuse: too few points, or self-crossing
Refused == {PTwoPoints, PBowtie}

\* C25: a create_zone call with fewer than 3 points or with a
\* self-intersecting polygon raises and leaves the zone table as it was.
C25_RefusedCreateChangesNothing ==
    (zm_op.name = "create" /\ zm_op.polygon \in Refused) =>
        /\ zm_op.raised
        /\ zone_table = zm_prev

\* a refused create_zone for the id of a zone that exists, next to another
C25_Witness ==
    /\ zm_op.name = "create"
    /\ zm_op.polygon = PBowtie
    /\ zm_op.raised
    /\ zm_op.zone_id \in DOMAIN zone_table
    /\ Cardinality(DOMAIN zone_table) = 2

\* C26: no query returns a zone that is inactive or deleted, and among
\* create, deactivate, activate and delete calls a zone that was not
\* returned is returned again only after activate_zone or create_zone for it.
C26_OnlyActiveZonesReturned ==
    /\ \A c \in ZoneQueryCameras :
          /\ \A p \in QueryPoints :
                check_point_all_zones(zone_table, p[1], p[2], c)
                    \subseteq ActiveZones(zone_table)
          /\ \A b \in QueryBoxes :
                check_bbox_all_zones(zone_table, b, c) \subseteq ActiveZones(zone_table)
    /\ zm_op.name \in {"create", "deactivate", "activate", "delete"} =>
          \A z \in Returned(zone_table) \ Returned(zm_prev) :
              zm_op.name \in {"create", "activate"} /\ zm_op.zone_id = z

\* a zone that was deactivated and is returned again after activate_zone,
\* next to a zone that stays inactive
C26_Witness ==
    /\ zm_op.name = "activate"
    /\ zm_op.zone_id \in Returned(zone_table) \ Returned(zm_prev)
    /\ \E z \in DOMAIN zone_table : ~zone_table[z].active

\* a camera id without its leading CAMERA_ token, letter case ignored
Canonical(camera_id) ==
    LET cam == Upper(camera_id)
    IN  IF StartsWith(cam, CameraPrefix)
        THEN SubSeq(cam, Len(CameraPrefix) + 1, Len(cam))
        ELSE cam

\* the opposite corners of an axis-parallel rectangle given by its vertices
Lo(poly, k) == CHOOSE v \in {poly[i][k] : i \in 1..Len(poly)} :
                   \A i \in 1..Len(poly) : v <= poly[i][k]

Hi(poly, k) == CHOOSE v \in {poly[i][k] : i \in 1..Len(poly)} :
                   \A i \in 1..Len(poly) : v >= poly[i][k]

\* p is strictly inside the axis-parallel rectangle
StrictlyInside(poly, p) ==
    \A k \in {1, 2} : Lo(poly, k) < p[k] /\ p[k] < Hi(poly, k)

\* the box overlaps the axis-parallel rectangle or touches it
OverlapsOrTouches(poly, b) ==
    /\ b[1] <= Hi(poly, 1) /\ Lo(poly, 1) <= b[3]
    /\ b[2] <= Hi(poly, 2) /\ Lo(poly, 2) <= b[4]

\* the camera ids that carry no blank around them
PlainCameraIds == {c \in CameraIds : Strip(c) = c}

C28_StrictPointsTouchingBoxes ==
    \A z \in ActiveZones(zone_table) :
        /\ \A p \in QueryPoints :
              z \in check_point_all_zones(zone_table, p[1], p[2], None)
                  <=> StrictlyInside(zone_table[z].polygon, p)
        /\ \A b \in QueryBoxes :
              z \in check_bbox_all_zones(zone_table, b, None)
                  <=> OverlapsOrTouches(zone_table[z].polygon, b)

\* an active zone with a point on its boundary that is not returned and a
\* box that touches it at a corner, the center outside, that is returned
C28_Witness ==
    /\ zm_n >= 1
    /\ "z1" \in ActiveZones(zone_table)
    /\ zone_table["z1"].polygon = PSquare
    /\ "z1" \in check_point_all_zones(zone_table, 2, 2, None)
    /\ "z1" \notin check_point_all_zones(zone_table, 4, 2, None)
    /\ "z1" \in check_bbox_all_zones(zone_table, <<4, 4, 5, 5>>, None)
    /\ "z1" \notin check_bbox_all_zones(zone_table, <<5, 0, 7, 1>>, None)

\* the fields of a zone that the document keeps
Kept(zone) ==
    <<zone.name, zone.camera_id, zone.polygon, zone.active, zone.description>>

\* C29: load_zones right after save_zones gives a table with the same
\* zone_ids, the same name, camera_id, polygon, active flag and description
\* for each, and the same answers to the point and bbox queries.
C29_SaveLoadRoundTrip ==
    (zm_op.name = "load" /\ zm_op.before = "save") =>
        /\ DOMAIN zone_table = DOMAIN zm_prev
        /\ \A z \in DOMAIN zone_table : Kept(zone_table[z]) = Kept(zm_prev[z])
        /\ \A c \in ZoneQueryCameras :
              /\ \A p \in QueryPoints :
                    check_point_all_zones(zone_table, p[1], p[2], c)
                        = check_point_all_zones(zm_prev, p[1], p[2], c)
              /\ \A b \in QueryBoxes :
                    check_bbox_all_zones(zone_table, b, c)
                        = check_bbox_all_zones(zm_prev, b, c)

\* a table with an inactive zone and a zone created by this manager, saved
\* and loaded
C29_Witness ==
    /\ zm_op.name = "load"
    /\ zm_op.before = "save"
    /\ \E z \in DOMAIN zone_table : ~zone_table[z].active
    /\ \E z \in DOMAIN zone_table :
          /\ "_polygon_obj" \in DOMAIN zone_table[z]
          /\ "_polygon_obj" \notin DOMAIN zm_prev[z]

\* C30: after the constructor or load_zones has read a zones document,
\* every zone_id of the document is in the table.
C30_LoadKeepsEveryZone ==
    (zm_op.name \in {"init", "load"} /\ ~IsNone(zones_file)) =>
        DOMAIN zone_table = DOMAIN Val(zones_file)

-----------------------------------------------------------------------------
(* Properties of main() *)

\* the tracks of the store that (video_id, track_id) names
TracksNamed(video_id, track_id) ==
    {fk \in (1..Len(store)) \X (1..MaxTracks + 1) :
        /\ store[fk[1]].readable
        /\ fk[2] <= Len(store[fk[1]].trajectories)
        /\ file_video[fk[1]] = video_id
        /\ TrackUid(fk[2]) = track_id}

\* the global_id the store holds for the track of an event
StoredGlobalId(e) ==
    LET named == TracksNamed(e.video_id, e.track_id)
    IN  IF named = {} THEN None
        ELSE LET fk == CHOOSE x \in named : TRUE
             IN  store[fk[1]].trajectories[fk[2]].global_id

\* C31: once the enrichment has run, run_global_matching has returned and
\* has written the files, and every event of the events file carries the
\* global_id the store holds for its track.
C31_EnrichmentAfterMatching ==
    enrich_runs > 0 =>
        /\ pc = "done"
        /\ \A i \in 1..Len(events_file) :
              events_file[i].global_id = StoredGlobalId(events_file[i])

\* an event logged while its video was processed carries the global_id of
\* the second identity of the matching
C31_Witness ==
    /\ enrich_runs > 0
    /\ events # <<>>
    /\ \E i \in 1..Len(events_file) :
          /\ events_file[i].enriched
          /\ events_file[i].global_id = Some(2)

\* C32: as long as the loop over the videos is not over, the events file
\* is empty and no track of the store has a global_id.
C32_NothingBeforeAllVideosAreExtracted ==
    main_pc = "videos" =>
        /\ events_file = <<>>
        /\ \A f \in 1..Len(store) :
              \A k \in 1..Len(store[f].trajectories) :
                  IsNone(store[f].trajectories[k].global_id)

====
